---- MODULE Spec2Model ----
(***************************************************************************)
(* A model of the ingestion pipeline of pgsql-hackers-viewer:              *)
(*   backend/parser/mbox.go      Message-ID repair and the validation gate *)
(*   backend/api/routes.go       groupByThread, storeMessagesInDB, the     *)
(*                               sync / upload / reset handlers            *)
(*   backend/analyzer/analyzer.go ClassifyThread, UpdateThreadActivity     *)
(*   backend/api/syncstate.go    the progress tracker                      *)
(*                                                                         *)
(* Text is a sequence of one-character strings, so that the trimming,      *)
(* scanning and searching the Go code does is computed, not assumed.       *)
(* Time is counted in hours.                                               *)
(***************************************************************************)
EXTENDS Integers, Sequences, FiniteSets, TLC

VARIABLES
    threads,        \* relation threads: set of rows
    messages,       \* relation messages: set of rows
    activities,     \* relation thread_activities: set of rows
    now,            \* wall clock, in hours
    call,           \* the last completed operation on the store, and what it returned
    batch,          \* resolver harness: the messages handed to groupByThread
    grouping,       \* resolver harness: what groupByThread gave back
    inputs,         \* classifier harness: the four features
    status,         \* classifier harness: the status computed
    runs,           \* ingestion goroutines in flight
    progress,       \* GlobalSyncState.Progress
    pool,           \* one call of DownloadMonthsConcurrent and the loop over its results
    process         \* the host process: "running" or "crashed"

vars == <<threads, messages, activities, now, call, batch, grouping, inputs, status, runs, progress,
          pool, process>>

storeVars == <<threads, messages, activities, now, call>>
groupVars == <<batch, grouping>>
classVars == <<inputs, status>>
syncVars  == <<runs, progress>>
hostVars  == <<pool, process>>

-----------------------------------------------------------------------------
(* Text *)

Empty == <<>>
TAB == "\t"
NL == "\n"
WhiteSpace == {" ", TAB, NL, "\r"}

RECURSIVE TrimLeft(_, _)
TrimLeft(s, cutset) ==
    IF s # Empty /\ Head(s) \in cutset THEN TrimLeft(Tail(s), cutset) ELSE s

RECURSIVE TrimRight(_, _)
TrimRight(s, cutset) ==
    IF s # Empty /\ s[Len(s)] \in cutset
    THEN TrimRight(SubSeq(s, 1, Len(s) - 1), cutset)
    ELSE s

\* strings.Trim
Trim(s, cutset) == TrimRight(TrimLeft(s, cutset), cutset)

\* strings.TrimSpace
TrimSpace(s) == Trim(s, WhiteSpace)

\* strings.ReplaceAll(s, c, "") for a one-character c
RemoveAll(s, c) == SelectSeq(s, LAMBDA ch : ch # c)

\* strings.Contains
Contains(s, sub) ==
    \E i \in 0..(Len(s) - Len(sub)) : \A k \in 1..Len(sub) : s[i + k] = sub[k]

\* strings.Fields
RECURSIVE FieldsFrom(_, _, _)
FieldsFrom(s, cur, out) ==
    IF s = Empty THEN (IF cur # Empty THEN Append(out, cur) ELSE out)
    ELSE IF Head(s) \in WhiteSpace
         THEN FieldsFrom(Tail(s), Empty, IF cur # Empty THEN Append(out, cur) ELSE out)
         ELSE FieldsFrom(Tail(s), Append(cur, Head(s)), out)

Fields(s) == FieldsFrom(s, Empty, <<>>)

Upper == <<"A", "C", "D", "F", "G", "I", "K", "L", "M", "P", "R", "T">>
Lower == <<"a", "c", "d", "f", "g", "i", "k", "l", "m", "p", "r", "t">>

\* strings.ToLower, on the letters the model's texts use
LowerChar(ch) ==
    IF \E i \in 1..Len(Upper) : Upper[i] = ch
    THEN Lower[CHOOSE i \in 1..Len(Upper) : Upper[i] = ch]
    ELSE ch

ToLower(s) == [i \in 1..Len(s) |-> LowerChar(s[i])]

\* an invalid UTF-8 byte
BadByte == "?!"

\* sanitizeUTF8: invalid bytes are skipped, everything else is kept
sanitizeUTF8(s) == SelectSeq(s, LAMBDA ch : ch # BadByte)

-----------------------------------------------------------------------------
(* Threading resolver: routes.go groupByThread *)

\* parseReferences, the scan for ids in angle brackets
RECURSIVE ScanBrackets(_, _, _, _)
ScanBrackets(s, inBracket, currentRef, refs) ==
    IF s = Empty THEN refs
    ELSE LET ch == Head(s) IN
         IF ch = "<" THEN ScanBrackets(Tail(s), TRUE, Empty, refs)
         ELSE IF ch = ">" /\ inBracket
              THEN ScanBrackets(Tail(s), FALSE, currentRef,
                                IF Len(currentRef) > 0 THEN Append(refs, currentRef) ELSE refs)
         ELSE IF inBracket
              THEN ScanBrackets(Tail(s), TRUE, Append(currentRef, ch), refs)
         ELSE ScanBrackets(Tail(s), FALSE, currentRef, refs)

\* parseReferences, the fallback split on white space
WhitespaceRefs(references) ==
    LET Trimmed(parts) == [i \in 1..Len(parts) |-> Trim(parts[i], {"<", ">"})]
    IN SelectSeq(Trimmed(Fields(references)),
                 LAMBDA part : part # Empty /\ Contains(part, <<"@">>))

parseReferences(references) ==
    IF references = Empty THEN <<>>
    ELSE LET OrFields(refs) == IF Len(refs) = 0 THEN WhitespaceRefs(references) ELSE refs
         IN OrFields(ScanBrackets(references, FALSE, Empty, <<>>))

\* the reference chain of a message: References, then In-Reply-To
RefChain(msg) ==
    LET WithInReplyTo(refs) ==
            IF msg.InReplyTo # Empty THEN Append(refs, msg.InReplyTo) ELSE refs
    IN WithInReplyTo(parseReferences(msg.RefersTo))

CleanRef(refID) == Trim(TrimSpace(refID), {"<", ">"})

\* the first reference of the chain that is not empty once cleaned, or Empty
RECURSIVE FirstValidRef(_)
FirstValidRef(refs) ==
    LET OrNext(refID) == IF refID = Empty THEN FirstValidRef(Tail(refs)) ELSE refID
    IN IF refs = <<>> THEN Empty ELSE OrNext(CleanRef(Head(refs)))

\* findThreadRootRFC5256 without the descent into a referenced message that
\* is in the batch: the first reference is the root wherever it is
findThreadRoot_NoDescent(msg, messageMap, messageToRoot, depth) ==
    LET Root(currentRefID) ==
            [returns |-> TRUE,
             root |-> IF currentRefID = Empty THEN msg.MessageID
                      ELSE IF currentRefID \in DOMAIN messageToRoot THEN messageToRoot[currentRefID]
                      ELSE currentRefID,
             messageToRoot |-> messageToRoot]
    IN Root(FirstValidRef(RefChain(msg)))

\* A call of findThreadRootRFC5256 gives back the root and the memo table it
\* has written to.  The recursion writes the table only on its way back, so
\* a call that meets the same message again on its way down repeats forever;
\* depth counts the messages it may still descend into, and a call that uses
\* it up does not return (the goroutine's stack overflows).
RECURSIVE findThreadRootRFC5256(_, _, _, _)
findThreadRootRFC5256(msg, messageMap, messageToRoot, depth) ==
    LET Memo(currentRefID, r) ==
            IF r.returns
            THEN [returns |-> TRUE, root |-> r.root,
                  messageToRoot |-> (currentRefID :> r.root) @@ r.messageToRoot]
            ELSE r
        Root(refs, currentRefID) ==
            IF Len(refs) = 0 \/ currentRefID = Empty
            THEN [returns |-> TRUE, root |-> msg.MessageID, messageToRoot |-> messageToRoot]
            ELSE IF currentRefID \in DOMAIN messageToRoot
            THEN [returns |-> TRUE, root |-> messageToRoot[currentRefID],
                  messageToRoot |-> messageToRoot]
            ELSE IF currentRefID \in DOMAIN messageMap
            THEN IF depth = 0
                 THEN [returns |-> FALSE, root |-> Empty, messageToRoot |-> messageToRoot]
                 ELSE Memo(currentRefID,
                           findThreadRootRFC5256(messageMap[currentRefID], messageMap,
                                                 messageToRoot, depth - 1))
            ELSE [returns |-> TRUE, root |-> currentRefID, messageToRoot |-> messageToRoot]
        Chain(refs) == Root(refs, FirstValidRef(refs))
    IN Chain(RefChain(msg))

\* groupByThread, first loop: message-id -> message, the last one wins
MessageMap(msgs) ==
    [id \in {msgs[i].MessageID : i \in 1..Len(msgs)} |->
        msgs[CHOOSE i \in 1..Len(msgs) :
                /\ msgs[i].MessageID = id
                /\ \A j \in (i + 1)..Len(msgs) : msgs[j].MessageID # id]]

\* the second loop with a message made its own root when the root found for it
\* is the id of no message of the batch
RECURSIVE ResolveRoots_OwnRootWhenAbsent(_, _, _, _)
ResolveRoots_OwnRootWhenAbsent(msgs, i, messageMap, messageToRoot) ==
    IF i > Len(msgs) THEN [returns |-> TRUE, messageToRoot |-> messageToRoot]
    ELSE LET Record(r) ==
                 IF r.returns
                 THEN ResolveRoots_OwnRootWhenAbsent(msgs, i + 1, messageMap,
                          (msgs[i].MessageID :>
                              (IF r.root \in DOMAIN messageMap THEN r.root ELSE msgs[i].MessageID))
                          @@ r.messageToRoot)
                 ELSE [returns |-> FALSE, messageToRoot |-> messageToRoot]
         IN Record(findThreadRootRFC5256(msgs[i], messageMap, messageToRoot,
                                         Cardinality(DOMAIN messageMap)))

\* groupByThread, second loop: the root of every message, in batch order
RECURSIVE ResolveRoots(_, _, _, _)
ResolveRoots(msgs, i, messageMap, messageToRoot) ==
    IF i > Len(msgs) THEN [returns |-> TRUE, messageToRoot |-> messageToRoot]
    ELSE LET Record(r) ==
                 IF r.returns
                 THEN ResolveRoots(msgs, i + 1, messageMap,
                                   (msgs[i].MessageID :> r.root) @@ r.messageToRoot)
                 ELSE [returns |-> FALSE, messageToRoot |-> messageToRoot]
         IN Record(findThreadRootRFC5256(msgs[i], messageMap, messageToRoot,
                                         Cardinality(DOMAIN messageMap)))

\* the third loop with the group assigned, not appended to
RECURSIVE BuildThreadMap_Overwrite(_, _, _, _)
BuildThreadMap_Overwrite(msgs, i, messageToRoot, threadMap) ==
    IF i > Len(msgs) THEN threadMap
    ELSE BuildThreadMap_Overwrite(msgs, i + 1, messageToRoot,
                                  (messageToRoot[msgs[i].MessageID] :> <<i>>) @@ threadMap)

\* groupByThread, third loop: root -> its members in batch order; a member
\* is a position of the batch (it stands for the *models.Message pointer)
RECURSIVE BuildThreadMap(_, _, _, _)
BuildThreadMap(msgs, i, messageToRoot, threadMap) ==
    IF i > Len(msgs) THEN threadMap
    ELSE LET AppendTo(root) ==
                 BuildThreadMap(msgs, i + 1, messageToRoot,
                     (root :> Append(IF root \in DOMAIN threadMap THEN threadMap[root] ELSE <<>>, i))
                     @@ threadMap)
         IN AppendTo(messageToRoot[msgs[i].MessageID])

ThreadMapOf(msgs, messageToRoot) == BuildThreadMap(msgs, 1, messageToRoot, <<>>)

groupByThread(msgs) ==
    LET Group(r) ==
            IF r.returns
            THEN [returns |-> TRUE, threadMap |-> ThreadMapOf(msgs, r.messageToRoot)]
            ELSE [returns |-> FALSE, threadMap |-> <<>>]
    IN Group(ResolveRoots(msgs, 1, MessageMap(msgs), <<>>))

-----------------------------------------------------------------------------
(* Parser: mbox.go, from the headers of one message to a models.Message *)

\* cleanMessageID: the cleaned id, or an error
cleanMessageID(msgid) ==
    LET Validate(cleaned) ==
            IF cleaned = Empty THEN [id |-> Empty, err |-> TRUE]
            ELSE IF ~Contains(cleaned, <<"@">>) THEN [id |-> Empty, err |-> TRUE]
            ELSE [id |-> cleaned, err |-> FALSE]
    IN Validate(RemoveAll(RemoveAll(Trim(TrimSpace(msgid), {"<", ">"}), " "), TAB))

\* generateFallbackMessageID: "generated-<uuid>@pgsql-analyzer.local", for the
\* n-th uuid
generateFallbackMessageID(n) == <<"g", ToString(n), "@">>

IsGenerated(id) == id # Empty /\ Head(id) = "g"

HasPrefix(s, prefix) == Len(s) >= Len(prefix) /\ SubSeq(s, 1, Len(prefix)) = prefix

SubjectPrefixes == <<<<"R", "e", ":">>, <<"R", "E", ":">>, <<"F", "w", "d", ":">>, <<"F", "W", "D", ":">>, <<"F", "w", ":">>>>

\* normalizeSubject, one pass over the prefixes
RECURSIVE StripPrefixes(_, _)
StripPrefixes(subject, k) ==
    IF k > Len(SubjectPrefixes) THEN subject
    ELSE IF HasPrefix(subject, SubjectPrefixes[k])
         THEN StripPrefixes(TrimSpace(SubSeq(subject, Len(SubjectPrefixes[k]) + 1, Len(subject))), k + 1)
         ELSE StripPrefixes(subject, k + 1)

RECURSIVE StripUntilStable(_)
StripUntilStable(subject) ==
    LET Again(stripped) == IF stripped = subject THEN subject ELSE StripUntilStable(stripped)
    IN Again(StripPrefixes(subject, 1))

normalizeSubject(subject) == StripUntilStable(TrimSpace(subject))

\* time.Time: hours since 1990-01-01; the zero Time lies before it
Year1990 == 0
ZeroTime == -1

\* parseDate: a Date header is a layout and the time it spells; a text in
\* none of the accepted layouts parses to the current time
DateLayouts == {"RFC1123Z", "RFC1123", "Mon, 2 Jan 2006 15:04:05 -0700",
                "02 Jan 2006 15:04:05 -0700", "2 Jan 2006 15:04:05 -0700"}

parseDate(date, clock) == IF date.layout \in DateLayouts THEN date.t ELSE clock

\* detectPatch
detectPatch(body, subject) ==
    LET Detect(bodyLower, subjectLower) ==
       \/ Contains(subjectLower, <<"[", "p", "a", "t", "c", "h">>)
       \/ Contains(subjectLower, <<"p", "a", "t", "c", "h", " ", "v">>)
       \/ Contains(subjectLower, <<"v", "1", " ", "p", "a", "t", "c", "h">>)
       \/ Contains(subjectLower, <<"v", "2", " ", "p", "a", "t", "c", "h">>)
       \/ Contains(body, <<"d", "i", "f", "f", " ", "-", "-", "g", "i", "t">>)
       \/ Contains(body, <<"-", "-", "-", " ", "a", "/">>)
       \/ Contains(body, <<"+", "+", "+", " ", "b", "/">>)
       \/ (Contains(body, <<"*", "*", "*", " ">>) /\ Contains(body, <<"-", "-", "-", " ">>))
       \/ Contains(bodyLower, <<"a", "t", "t", "a", "c", "h", "e", "d", " ", "p", "a", "t", "c", "h">>)
       \/ Contains(bodyLower, <<"p", "a", "t", "c", "h", " ", "a", "t", "t", "a", "c", "h", "e", "d">>)
       \/ Contains(bodyLower, <<".", "p", "a", "t", "c", "h">>)
       \/ Contains(bodyLower, <<"c", "o", "n", "t", "e", "n", "t", "-", "d", "i", "s", "p", "o", "s", "i", "t", "i", "o", "n", ":", " ", "a", "t", "t", "a", "c", "h", "m", "e", "n", "t">>)
    IN Detect(ToLower(body), ToLower(subject))

\* detectPatchStatus
detectPatchStatus(body, subject) ==
    LET Detect(bodyLower, subjectLower) ==
            IF \/ Contains(bodyLower, <<"c", "o", "m", "m", "i", "t", "t", "e", "d">>)
               \/ Contains(bodyLower, <<"p", "u", "s", "h", "e", "d">>)
               \/ Contains(bodyLower, <<"a", "p", "p", "l", "i", "e", "d">>)
               \/ Contains(subjectLower, <<"c", "o", "m", "m", "i", "t", "t", "e", "d">>)
            THEN "committed"
            ELSE IF \/ Contains(bodyLower, <<"r", "e", "a", "d", "y", " ", "f", "o", "r", " ", "c", "o", "m", "m", "i", "t", "t", "e", "r">>)
                    \/ Contains(bodyLower, <<"m", "a", "r", "k", "e", "d", " ", "a", "s", " ", "r", "e", "a", "d", "y">>)
                    \/ Contains(bodyLower, <<"m", "o", "v", "e", "d", " ", "t", "o", " ", "r", "e", "a", "d", "y", " ", "f", "o", "r", " ", "c", "o", "m", "m", "i", "t", "t", "e", "r">>)
            THEN "accepted"
            ELSE IF \/ Contains(bodyLower, <<"r", "e", "j", "e", "c", "t", "e", "d">>)
                    \/ Contains(bodyLower, <<"n", "o", "t", " ", "a", "p", "p", "l", "y", "i", "n", "g">>)
                    \/ Contains(bodyLower, <<"r", "e", "t", "u", "r", "n", "e", "d", " ", "w", "i", "t", "h", " ", "f", "e", "e", "d", "b", "a", "c", "k">>)
            THEN "rejected"
            ELSE "proposed"
    IN Detect(ToLower(body), ToLower(subject))

\* The headers of one message of an archive unit.  A header that is not there
\* is Empty (Date: layout "none"); From is a bare address.
RawMessage(messageID, references, inReplyTo, from, date, subject, body) ==
    [MessageID |-> messageID, References |-> references, InReplyTo |-> inReplyTo,
     From |-> from, Date |-> date, Subject |-> subject, Body |-> body]

\* processHeader over the headers of a message, and the body: all of the
\* message but the uuid of a fallback id and the time of an unparsed date
processHeaders(raw) ==
    LET Headers(cleaned, subject, body) ==
            [MessageID |-> IF raw.MessageID = Empty THEN Empty ELSE cleaned.id,
             malformed |-> raw.MessageID # Empty /\ cleaned.err,
             InReplyTo |-> IF raw.InReplyTo = Empty THEN Empty
                           ELSE cleanMessageID(raw.InReplyTo).id,
             RefersTo |-> raw.References,
             Subject |-> subject,
             Author |-> raw.From,
             AuthorEmail |-> raw.From,
             Body |-> body,
             HasPatch |-> detectPatch(body, subject),
             PatchStatus |-> IF detectPatch(body, subject)
                             THEN detectPatchStatus(body, subject) ELSE ""]
    IN Headers(cleanMessageID(raw.MessageID), normalizeSubject(raw.Subject), TrimSpace(raw.Body))

-----------------------------------------------------------------------------
(* Classifier: analyzer.go *)

HoursPerDay == 24

\* the rules with the stalled rule tried before the abandoned rule
Classify_StalledFirst(hasPatch, hasReview, messageCount, hoursSince) ==
    IF hasPatch /\ (hasReview \/ messageCount > 3) THEN "in-progress"
    ELSE IF hoursSince > 7 * HoursPerDay THEN "stalled"
    ELSE IF hoursSince > 30 * HoursPerDay /\ messageCount < 5 THEN "abandoned"
    ELSE "discussion"

\* the rules with every comparison non-strict
Classify_NonStrict(hasPatch, hasReview, messageCount, hoursSince) ==
    IF hasPatch /\ (hasReview \/ messageCount >= 3) THEN "in-progress"
    ELSE IF hoursSince >= 30 * HoursPerDay /\ messageCount <= 5 THEN "abandoned"
    ELSE IF hoursSince >= 7 * HoursPerDay THEN "stalled"
    ELSE "discussion"

\* ClassifyThread, the classification logic; daysSince is hoursSince / 24 in
\* floating point, so daysSince > d is hoursSince > 24 * d
Classify(hasPatch, hasReview, messageCount, hoursSince) ==
    IF hasPatch /\ (hasReview \/ messageCount > 3) THEN "in-progress"
    ELSE IF hoursSince > 30 * HoursPerDay /\ messageCount < 5 THEN "abandoned"
    ELSE IF hoursSince > 7 * HoursPerDay THEN "stalled"
    ELSE "discussion"

patchKeywords == <<<<"p", "a", "t", "c", "h">>, <<"d", "i", "f", "f">>, <<"c", "o", "m", "m", "i", "t">>, <<"P", "R">>>>
reviewKeywords == <<<<"r", "e", "v", "i", "e", "w">>, <<"L", "G", "T", "M">>, <<"a", "p", "p", "r", "o", "v", "e", "d">>, <<"l", "o", "o", "k", "s", " ", "g", "o", "o", "d">>, <<"A", "C", "K">>>>

\* strings.ToLower(keyword), for every keyword of a list
LowerAll(keywords) == [k \in 1..Len(keywords) |-> ToLower(keywords[k])]

patchKeywordsLower == LowerAll(patchKeywords)
reviewKeywordsLower == LowerAll(reviewKeywords)

ContainsAny(bodyLower, keywordsLower) ==
    \E k \in 1..Len(keywordsLower) : Contains(bodyLower, keywordsLower[k])

\* the scan with the keywords compared as they are written, not lowered
ScanBody_KeywordsAsWritten(body) ==
    LET Scan(bodyLower) ==
            [hasPatch |-> ContainsAny(bodyLower, patchKeywords),
             hasReview |-> ContainsAny(bodyLower, reviewKeywords)]
    IN Scan(ToLower(body))

\* checkForPatchKeywords, the scan of one body
ScanBody(body) ==
    LET Scan(bodyLower) ==
            [hasPatch |-> ContainsAny(bodyLower, patchKeywordsLower),
             hasReview |-> ContainsAny(bodyLower, reviewKeywordsLower)]
    IN Scan(ToLower(body))

-----------------------------------------------------------------------------
(* Message ids and header texts of the model *)

ida == <<"a", "@">>
idb == <<"b", "@">>
idc == <<"c", "@">>
idx == <<"x", "@">>

\* "<id>"
Bracketed(id) == <<"<">> \o id \o <<">">>

\* a models.Message as the parser hands it on
Message(id, refersTo, inReplyTo, email, createdAt, body) ==
    [MessageID |-> id, RefersTo |-> refersTo, InReplyTo |-> inReplyTo,
     Author |-> email, AuthorEmail |-> email, CreatedAt |-> createdAt, Body |-> body]

Now0 == 300
Old == 100
Recent == 280

Rfc(t) == [layout |-> "RFC1123Z", t |-> t]
NoDate == [layout |-> "none", t |-> 0]

PatchAttached == <<"p", "a", "t", "c", "h", " ", "a", "t", "t", "a", "c", "h", "e", "d">>

\* the messages archive units are made of: a thread starter, a reply to it
\* that carries a patch, the same Message-ID again under another ancestor, and
\* a reply whose Message-ID is malformed
rawA == RawMessage(Bracketed(ida), Empty, Empty, "u1", Rfc(Old), <<"x">>, <<"h", "i">>)
rawB == RawMessage(Bracketed(idb), Bracketed(ida), Bracketed(ida), "u2", Rfc(Recent),
                   <<"R", "e", ":", " ", "x">>, PatchAttached)
rawB2 == RawMessage(Bracketed(idb), Bracketed(idx), Empty, "u2", Rfc(Recent),
                    <<"R", "e", ":", " ", "y">>, <<"L", "G", "T", "M">>)
rawMalformed == RawMessage(<<"c", " ", "d">>, Bracketed(ida), Empty, "u2", Rfc(Recent),
                           <<"R", "e", ":", " ", "x">>, <<"h", "i">>)

RawMessages == {rawA, rawB, rawB2, rawMalformed}

idm1 == <<"m", "1", "@", "x">>
idm2 == <<"m", "2", "@", "x">>

PatchAttachedLGTM == PatchAttached \o <<" ", "L", "G", "T", "M">>

\* a thread starter and a reply to it through In-Reply-To alone, whose body
\* announces a patch and approves it; each from either sender at either date
PairStarters ==
    {RawMessage(Bracketed(idm1), Empty, Empty, from, Rfc(t), <<"x">>, <<"h", "i">>)
        : from \in {"u1", "u2"}, t \in {Old, Recent}}

PairReplies ==
    {RawMessage(Bracketed(idm2), Empty, Bracketed(idm1), from, Rfc(t),
                <<"R", "e", ":", " ", "x">>, PatchAttachedLGTM)
        : from \in {"u1", "u2"}, t \in {Old, Recent}}

idd == <<"d", "@">>

\* a chain of replies a <- b <- c and a <- b <- d, each message naming its
\* parent alone: c through References, d through In-Reply-To
rawC == RawMessage(Bracketed(idc), Bracketed(idb), Empty, "u1", Rfc(Recent),
                   <<"R", "e", ":", " ", "x">>, <<"h", "i">>)
rawD == RawMessage(Bracketed(idd), Empty, Bracketed(idb), "u2", Rfc(Recent),
                   <<"R", "e", ":", " ", "x">>, <<"h", "i">>)

ChainMessages == {rawA, rawB, rawC, rawD}

\* a Date header in a layout parseDate does not accept, as "2025-01-05T10:00:00Z"
Iso(t) == [layout |-> "2006-01-02T15:04:05Z07:00", t |-> t]

\* the Date headers of the messages below: accepted layouts, one of them
\* spelling a time before 1990, no header at all, and a layout not accepted
DateHeaders ==
    {Rfc(Old), [layout |-> "2 Jan 2006 15:04:05 -0700", t |-> Recent], Rfc(Year1990 - 5),
     NoDate, Iso(Old), Iso(Recent)}

\* messages that differ in their Date header
DateMessages ==
    {RawMessage(Bracketed(id), Empty, Empty, "u1", date, <<"x">>, <<"h", "i">>)
        : id \in {ida, idb}, date \in DateHeaders}

Committed == <<"p", "a", "t", "c", "h", " ", "a", "t", "t", "a", "c", "h", "e", "d", ",",
               " ", "c", "o", "m", "m", "i", "t", "t", "e", "d">>

\* the message b@ as different files hold it: under an ancestor or none, from
\* one sender at the old date or the other at the recent one, and with one of
\* three subjects and bodies
Versions ==
    {RawMessage(Bracketed(idb), refs, refs, sent[1], Rfc(sent[2]), text[1], text[2])
        : refs \in {Empty, Bracketed(ida)}, sent \in {<<"u1", Old>>, <<"u2", Recent>>},
          text \in {<<<<"x">>, <<"h", "i">>>>,
                    <<<<"R", "e", ":", " ", "y">>, PatchAttached>>,
                    <<<<"z">>, Committed>>}}

\* processHeaders and the keyword scan of the texts above, made once
HeadersTable ==
    [raw \in RawMessages \cup PairStarters \cup PairReplies \cup ChainMessages
              \cup DateMessages \cup Versions
        |-> processHeaders(raw)]

HeadersOf(raw) == HeadersTable[raw]

ScanTable ==
    [body \in {sanitizeUTF8(HeadersTable[raw].Body) : raw \in DOMAIN HeadersTable}
        |-> ScanBody(body)]

ScanOf(body) == ScanTable[body]

-----------------------------------------------------------------------------
(* Parser: ParseMboxFile over the messages of a unit *)

ParseMessage(raw, fallback, clock) ==
    LET Build(h) ==
            [MessageID |-> IF h.malformed THEN fallback ELSE h.MessageID,
             InReplyTo |-> h.InReplyTo,
             RefersTo |-> h.RefersTo,
             Subject |-> h.Subject,
             Author |-> h.Author,
             AuthorEmail |-> h.AuthorEmail,
             CreatedAt |-> IF raw.Date.layout = "none" THEN ZeroTime
                           ELSE parseDate(raw.Date, clock),
             Body |-> h.Body,
             HasPatch |-> h.HasPatch,
             PatchStatus |-> h.PatchStatus,
             CommitFestID |-> ""]
    IN Build(HeadersOf(raw))

\* a fallback id is wanted for a Message-ID header that is there and malformed
NeedsFallback(raw) == HeadersOf(raw).malformed

\* ParseMboxFile, the validation gate
PassesValidation(msg) ==
    /\ msg.MessageID # Empty
    /\ ~(msg.Author = "" /\ msg.AuthorEmail = "")
    /\ ~(msg.CreatedAt = ZeroTime \/ msg.CreatedAt < Year1990)

\* the first uuid that is in no id of taken
FreshUuid(taken) ==
    CHOOSE n \in 1..(Cardinality(taken) + 1) :
        /\ generateFallbackMessageID(n) \notin taken
        /\ \A k \in 1..(n - 1) : generateFallbackMessageID(k) \in taken

\* ParseMboxFile: the messages of a unit that pass the gate, in order.  taken
\* holds the generated ids that exist already: a uuid is new every time.
RECURSIVE ParseFrom(_, _, _, _)
ParseFrom(unit, taken, clock, out) ==
    LET Gate(fallback, msg) ==
            ParseFrom(Tail(unit),
                      IF NeedsFallback(Head(unit)) THEN taken \cup {fallback} ELSE taken,
                      clock,
                      IF PassesValidation(msg) THEN Append(out, msg) ELSE out)
        Parse(fallback) == Gate(fallback, ParseMessage(Head(unit), fallback, clock))
    IN IF unit = <<>> THEN out ELSE Parse(generateFallbackMessageID(FreshUuid(taken)))

ParseMboxFile(unit, taken, clock) == ParseFrom(unit, taken, clock, <<>>)

-----------------------------------------------------------------------------
(* Store: the relations threads, messages and thread_activities *)

MessagesOf(db, threadID) == {m \in db.messages : m.thread_id = threadID}

Max(S) == CHOOSE x \in S : \A y \in S : y <= x

\* NULL in a time column
Null == -2

\* the row count, the distinct author_email count and the greatest created_at
\* of a thread's messages
CountOf(db, threadID) == Cardinality(MessagesOf(db, threadID))
AuthorsOf(db, threadID) == Cardinality({m.author_email : m \in MessagesOf(db, threadID)})
LastOf(db, threadID) ==
    LET Latest(rows) == IF rows = {} THEN Null ELSE Max({m.created_at : m \in rows})
    IN Latest(MessagesOf(db, threadID))

\* checkForPatchKeywords
checkForPatchKeywords(db, threadID) ==
    LET Flags(scans) == [hasPatch |-> \E scan \in scans : scan.hasPatch,
                       hasReview |-> \E scan \in scans : scan.hasReview]
    IN Flags({ScanOf(m.body) : m \in MessagesOf(db, threadID)})

ThreadRow(db, threadID) == CHOOSE t \in db.threads : t.id = threadID

\* ClassifyThread: the status, or an error when the thread is not there
ClassifyThread(db, threadID, clock) ==
    LET Status(t, kw) ==
            [status |-> Classify(kw.hasPatch, kw.hasReview, t.message_count,
                                 clock - (IF t.last_message_at # Null THEN t.last_message_at
                                          ELSE t.created_at)),
             err |-> FALSE]
    IN IF \E t \in db.threads : t.id = threadID
       THEN Status(ThreadRow(db, threadID), checkForPatchKeywords(db, threadID))
       ELSE [status |-> "unknown", err |-> TRUE]

\* int(x) of Go: towards zero
TruncDiv(a, b) == IF a >= 0 THEN a \div b ELSE -((-a) \div b)

\* UpdateThreadActivity.  MAX(created_at) of no rows is NULL, which does not
\* scan into a time.Time: the call returns the error and writes nothing.
UpdateThreadActivity(db, threadID, clock) ==
    LET Write(messageCount, uniqueAuthors, lastMessageAt, kw) ==
            [db EXCEPT
               !.threads = {IF t.id = threadID
                            THEN [t EXCEPT !.message_count = messageCount,
                                           !.unique_authors = uniqueAuthors,
                                           !.last_message_at = lastMessageAt]
                            ELSE t : t \in db.threads},
               !.activities =
                   IF \E t \in db.threads : t.id = threadID
                   THEN {a \in db.activities : a.thread_id # threadID}
                        \cup {[thread_id |-> threadID,
                               message_count |-> messageCount,
                               unique_authors |-> uniqueAuthors,
                               has_patch |-> kw.hasPatch,
                               has_review |-> kw.hasReview,
                               days_since_last_message |->
                                   TruncDiv(clock - lastMessageAt, HoursPerDay)]}
                   ELSE db.activities]
    IN IF MessagesOf(db, threadID) = {} THEN db
       ELSE Write(CountOf(db, threadID), AuthorsOf(db, threadID), LastOf(db, threadID),
                  checkForPatchKeywords(db, threadID))

\* UPDATE threads SET status = ... WHERE id = ..., when ClassifyThread gave no error
SetStatus(db, threadID, clock) ==
    LET Set(c) ==
            IF c.err THEN db
            ELSE [db EXCEPT !.threads = {IF t.id = threadID THEN [t EXCEPT !.status = c.status]
                                          ELSE t : t \in db.threads}]
    IN Set(ClassifyThread(db, threadID, clock))

\* uuid.New(): a value no row of rows has as its id.  The uuid of a row made
\* for key is <<key, n>>, n the first number that makes it new.
NewId(rows, key) ==
    LET Taken(ids) == CHOOSE n \in 1..(Cardinality(ids) + 1) :
                          /\ <<key, n>> \notin ids
                          /\ \A k \in 1..(n - 1) : <<key, k>> \in ids
    IN <<key, Taken({r.id : r \in rows})>>

NoThread == <<Empty, 0>>

\* sortMessagesByTime: the exchange sort of the code, on a sequence
Swap(msgs, i, j) == [msgs EXCEPT ![i] = msgs[j], ![j] = msgs[i]]

RECURSIVE SortFrom(_, _, _)
SortFrom(msgs, i, j) ==
    IF i > Len(msgs) - 1 THEN msgs
    ELSE IF j > Len(msgs) THEN SortFrom(msgs, i + 1, i + 2)
    ELSE IF msgs[i].CreatedAt > msgs[j].CreatedAt
         THEN SortFrom(Swap(msgs, i, j), i, j + 1)
         ELSE SortFrom(msgs, i, j + 1)

sortMessagesByTime(msgs) == SortFrom(msgs, 1, 2)

\* the lookup by the root id left out: no thread is ever found by it
ThreadByRoot_Never(db, rootMessageID) == NoThread

\* SELECT id FROM threads WHERE first_message_id = $1 LIMIT 1
ThreadByRoot(db, rootMessageID) ==
    IF \E t \in db.threads : t.first_message_id = rootMessageID
    THEN (CHOOSE t \in db.threads : t.first_message_id = rootMessageID).id
    ELSE NoThread

\* the loop over the members: the thread of the first one that is persisted
RECURSIVE ThreadOfMember(_, _)
ThreadOfMember(db, msgs) ==
    IF msgs = <<>> THEN NoThread
    ELSE IF \E m \in db.messages : m.message_id = Head(msgs).MessageID
         THEN (CHOOSE m \in db.messages : m.message_id = Head(msgs).MessageID).thread_id
         ELSE ThreadOfMember(db, Tail(msgs))

\* INSERT INTO threads ...: the columns not given take their defaults
InsertThread(db, threadID, rootMessageID, firstMsg) ==
    [db EXCEPT !.threads = @ \cup
        {[id |-> threadID,
          subject |-> sanitizeUTF8(firstMsg.Subject),
          first_message_id |-> sanitizeUTF8(rootMessageID),
          first_author_email |-> firstMsg.AuthorEmail,
          created_at |-> firstMsg.CreatedAt,
          last_message_at |-> firstMsg.CreatedAt,
          message_count |-> 0,
          unique_authors |-> 0,
          status |-> "discussion"]}]

\* the row a message is inserted as
MessageRow(rowID, threadID, msg) ==
    [id |-> rowID,
     thread_id |-> threadID,
     message_id |-> sanitizeUTF8(msg.MessageID),
     in_reply_to |-> sanitizeUTF8(msg.InReplyTo),
     refers_to |-> sanitizeUTF8(msg.RefersTo),
     subject |-> sanitizeUTF8(msg.Subject),
     author |-> msg.Author,
     author_email |-> msg.AuthorEmail,
     body |-> sanitizeUTF8(msg.Body),
     created_at |-> msg.CreatedAt,
     has_patch |-> msg.HasPatch,
     patch_status |-> msg.PatchStatus,
     commitfest_id |-> msg.CommitFestID]

\* INSERT INTO messages with no ON CONFLICT clause: a second row
UpsertMessage_PlainInsert(db, threadID, msg) ==
    [db EXCEPT !.messages =
        @ \cup {MessageRow(NewId(db.messages, sanitizeUTF8(msg.MessageID)), threadID, msg)}]

\* ON CONFLICT (message_id) DO UPDATE SET every column but id
UpsertMessage_OverwriteAll(db, threadID, msg) ==
    LET Upsert(new) ==
            IF \E m \in db.messages : m.message_id = new.message_id
            THEN [db EXCEPT !.messages =
                     {IF m.message_id = new.message_id THEN [new EXCEPT !.id = m.id] ELSE m
                      : m \in db.messages}]
            ELSE [db EXCEPT !.messages = @ \cup {new}]
    IN Upsert(MessageRow(NewId(db.messages, sanitizeUTF8(msg.MessageID)), threadID, msg))

\* INSERT INTO messages ... ON CONFLICT (message_id) DO UPDATE SET thread_id,
\* in_reply_to, refers_to, has_patch, ... = EXCLUDED. ...
UpsertMessage(db, threadID, msg) ==
    LET Upsert(new) ==
            IF \E m \in db.messages : m.message_id = new.message_id
            THEN [db EXCEPT !.messages =
                     {IF m.message_id = new.message_id
                      THEN [m EXCEPT !.thread_id = new.thread_id,
                                     !.in_reply_to = new.in_reply_to,
                                     !.refers_to = new.refers_to,
                                     !.has_patch = new.has_patch,
                                     !.patch_status = new.patch_status,
                                     !.commitfest_id = new.commitfest_id]
                      ELSE m : m \in db.messages}]
            ELSE [db EXCEPT !.messages = @ \cup {new}]
    IN Upsert(MessageRow(NewId(db.messages, sanitizeUTF8(msg.MessageID)), threadID, msg))

\* result.RowsAffected() of the upsert: PostgreSQL counts the rows inserted
\* or updated, so the row updated on a conflict is counted as well
RowsAffected(db, msg) == 1

\* the loop over the members of one group
RECURSIVE UpsertMembers(_, _, _)
UpsertMembers(db, threadID, msgs) ==
    IF msgs = <<>> THEN db
    ELSE UpsertMembers(
            [UpsertMessage(db, threadID, Head(msgs))
                EXCEPT !.inserted = @ + RowsAffected(db, Head(msgs))],
            threadID, Tail(msgs))

\* storeMessagesInDB, the body of the loop over the groups
StoreGroup(db, rootMessageID, members, clock) ==
    LET Analyze(db2, threadID) ==
            SetStatus(UpdateThreadActivity(db2, threadID, clock), threadID, clock)
        Into(msgs, found, threadID) ==
            Analyze(UpsertMembers(IF found # NoThread THEN db
                                  ELSE InsertThread(db, threadID, rootMessageID, msgs[1]),
                                  threadID, msgs),
                    threadID)
        Create(msgs, found) ==
            Into(msgs, found,
                 IF found # NoThread THEN found
                 ELSE NewId(db.threads, sanitizeUTF8(rootMessageID)))
        Adopt(msgs, byRoot) ==
            Create(msgs, IF byRoot # NoThread THEN byRoot ELSE ThreadOfMember(db, msgs))
        Lookup(msgs) == Adopt(msgs, ThreadByRoot(db, rootMessageID))
    IN Lookup(sortMessagesByTime(members))

\* the statistics of every thread left as they are
RefreshThreadStats_Skip(db) == db

\* the UPDATE that refreshes the statistics of every thread from its messages
RefreshThreadStats(db) ==
    [db EXCEPT !.threads = {[t EXCEPT !.message_count = CountOf(db, t.id),
                                      !.unique_authors = AuthorsOf(db, t.id),
                                      !.last_message_at = LastOf(db, t.id)]
                            : t \in db.threads}]

\* DELETE FROM threads WHERE message_count = 0; the rows that reference a
\* deleted thread go with it (ON DELETE CASCADE)
DeleteOrphanThreads(db) ==
    LET Keep(keptIds) ==
            [db EXCEPT !.threads = {t \in db.threads : t.id \in keptIds},
                       !.messages = {m \in db.messages : m.thread_id \in keptIds},
                       !.activities = {a \in db.activities : a.thread_id \in keptIds}]
    IN Keep({t.id : t \in {t \in db.threads : t.message_count # 0}})

\* the statuses left as the loop over the groups wrote them
ReclassifyAll_Skip(db, ids, clock) == db

\* the loop that reclassifies every thread
RECURSIVE ReclassifyAll(_, _, _)
ReclassifyAll(db, ids, clock) ==
    LET One(id) == ReclassifyAll(SetStatus(db, id, clock), ids \ {id}, clock)
    IN IF ids = {} THEN db ELSE One(CHOOSE id \in ids : TRUE)

\* the loop over the groups, in the order Go's map iteration gives them
RECURSIVE StoreGroups(_, _, _, _, _)
StoreGroups(db, msgs, threadMap, order, clock) ==
    IF order = <<>> THEN db
    ELSE StoreGroups(StoreGroup(db, Head(order),
                                [k \in 1..Len(threadMap[Head(order)]) |->
                                    msgs[threadMap[Head(order)][k]]],
                                clock),
                     msgs, threadMap, Tail(order), clock)

\* the orders the groups of a batch can be visited in
Orders(roots) ==
    {order \in [1..Cardinality(roots) -> roots] :
        \A i, j \in 1..Cardinality(roots) : order[i] = order[j] => i = j}

\* storeMessagesInDB, for a batch groupByThread returns on: the stores it can
\* leave, one for every order of the groups, each with the count it returns
storeMessagesInDB(db, msgs, clock) ==
    LET Finish(db2) == ReclassifyAll(db2, {t.id : t \in db2.threads}, clock)
        Groups(threadMap) ==
            {Finish(DeleteOrphanThreads(RefreshThreadStats(
                 StoreGroups([db EXCEPT !.inserted = 0], msgs, threadMap, order, clock))))
             : order \in Orders(DOMAIN threadMap)}
    IN Groups(groupByThread(msgs).threadMap)

-----------------------------------------------------------------------------
(* The store under a sequence of ingestions *)

MaxUnit == 2
MaxGenerated == 2
MaxTicks == 1
TickHours == 800

\* an archive unit: the messages of one mbox file, in file order, each there once
Units ==
    UNION { {unit \in [1..n -> RawMessages] : \A i, j \in 1..n : unit[i] = unit[j] => i = j}
            : n \in 0..MaxUnit }

Store == [threads |-> threads, messages |-> messages, activities |-> activities, inserted |-> 0]

GeneratedIds(rows) == {m.message_id : m \in {r \in rows : IsGenerated(r.message_id)}}

FallbacksIn(unit) == Cardinality({i \in 1..Len(unit) : NeedsFallback(unit[i])})

InitStore ==
    /\ threads = {}
    /\ messages = {}
    /\ activities = {}
    /\ now = Now0
    /\ call = [op |-> "none", inserted |-> 0]

MaxRuns == 2
MaxMonths == 2

\* the goroutines the handlers start run in slots; a slot is free again when
\* its goroutine has returned
RunIds == 1..MaxRuns

\* no call of DownloadMonthsConcurrent under way
NoPool == [pc |-> "idle"]

NoRun == [kind |-> "none", pc |-> "idle", processed |-> 0, total |-> 0, unit |-> <<>>]

\* GlobalSyncState as declared
InitSync ==
    /\ runs = [r \in RunIds |-> NoRun]
    /\ progress = [MonthsSynced |-> 0, TotalMonths |-> 0, CurrentMonth |-> "",
                   IsSyncing |-> FALSE, LatestMessageDate |-> Null]
    /\ pool = NoPool
    /\ process = "running"

InitClass ==
    /\ inputs = [hasPatch |-> FALSE, hasReview |-> FALSE, messageCount |-> 0, hoursSince |-> 0]
    /\ status = "none"

Init ==
    /\ InitStore /\ InitSync /\ InitClass
    /\ batch = <<>>
    /\ grouping = [state |-> "idle"]

\* parse one unit and reconcile it: the stores the call can leave behind
Reconciled(db, unit, clock) ==
    LET Reconcile(msgs) ==
            IF groupByThread(msgs).returns THEN storeMessagesInDB(db, msgs, clock) ELSE {}
    IN Reconcile(ParseMboxFile(unit, GeneratedIds(db.messages), clock))

\* processMboxFile, run to its end with no other run beside it
processMboxFile(unit) ==
    /\ Cardinality(GeneratedIds(messages)) + FallbacksIn(unit) <= MaxGenerated
    /\ \E db \in Reconciled(Store, unit, now) :
         /\ threads' = db.threads
         /\ messages' = db.messages
         /\ activities' = db.activities
         /\ call' = [op |-> "store", inserted |-> db.inserted]
    /\ UNCHANGED <<now, groupVars, classVars, syncVars, hostVars>>

\* resetHandler: TRUNCATE the three relations
resetHandler ==
    /\ threads' = {}
    /\ messages' = {}
    /\ activities' = {}
    /\ call' = [op |-> "reset", inserted |-> 0]
    /\ UNCHANGED <<now, groupVars, classVars, syncVars, hostVars>>

\* time passes
Tick ==
    /\ now + TickHours <= Now0 + MaxTicks * TickHours
    /\ now' = now + TickHours
    /\ UNCHANGED <<threads, messages, activities, call, groupVars, classVars, syncVars, hostVars>>

Next ==
    \/ \E unit \in Units : processMboxFile(unit)
    \/ resetHandler
    \/ Tick

Spec == Init /\ [][Next]_vars

-----------------------------------------------------------------------------
(* Resolver harness: groupByThread applied to every small batch *)

MaxBatch == 3

BatchIds == {ida, idb, idc}

\* (References, In-Reply-To) of a batch message: none, one id present or
\* absent, two ids, In-Reply-To alone, a blank bracket first, a bare id
BatchRefs ==
    { <<Empty, Empty>>,
      <<Bracketed(ida), Empty>>,
      <<Bracketed(idb), Empty>>,
      <<Bracketed(idx), Empty>>,
      <<Bracketed(idx) \o <<" ">> \o Bracketed(ida), Empty>>,
      <<Empty, ida>>,
      <<<<"<", " ", ">">> \o Bracketed(idb), idx>>,
      <<idc, Empty>> }

BatchMessages ==
    { Message(id, r[1], r[2], "u1", 1, Empty) : id \in BatchIds, r \in BatchRefs }

Batches == UNION { [1..n -> BatchMessages] : n \in 0..MaxBatch }

InitGroup ==
    /\ batch \in Batches
    /\ grouping = [state |-> "idle"]
    /\ InitStore /\ InitSync /\ InitClass

\* one call of groupByThread on the batch
CallGroupByThread ==
    /\ grouping.state = "idle"
    /\ \E g \in {groupByThread(batch)} :
          grouping' = IF g.returns
                      THEN [state |-> "returned", threadMap |-> g.threadMap]
                      ELSE [state |-> "overflow"]
    /\ UNCHANGED <<batch, storeVars, classVars, syncVars, hostVars>>

SpecGroup == InitGroup /\ [][CallGroupByThread]_vars

\* the members of a group, as a set of batch positions
Members(threadMap, root) == {threadMap[root][k] : k \in 1..Len(threadMap[root])}

\* positions i and j of the batch are in one group
SameGroup(threadMap, i, j) ==
    \E root \in DOMAIN threadMap : {i, j} \subseteq Members(threadMap, root)

\* the cleaned ids of the References header of a message
ReferenceIds(msg) ==
    LET refs == parseReferences(msg.RefersTo)
    IN {CleanRef(refs[k]) : k \in 1..Len(refs)} \ {Empty}

InBatch(id) == \E i \in 1..Len(batch) : batch[i].MessageID = id

\* every id of the reference chain of a message, cleaned
ChainIds(msg) ==
    LET refs == RefChain(msg)
    IN {CleanRef(refs[k]) : k \in 1..Len(refs)} \ {Empty}

\* the immediate ancestor the resolver follows, as a set of at most one id
FirstRefId(msg) == {FirstValidRef(RefChain(msg))} \ {Empty}

WithId(id) == {i \in 1..Len(batch) : batch[i].MessageID = id}

\* the ids reached from a message through Step (ChainIds or FirstRefId),
\* continued through the messages of the batch
RECURSIVE Reached(_, _, _)
Reached(Step(_), msg, depth) ==
    Step(msg) \cup
    (IF depth = 0 THEN {}
     ELSE UNION { Reached(Step, batch[i], depth - 1) :
                    i \in UNION { WithId(id) : id \in Step(msg) } })

AncestorIds(i) == Reached(ChainIds, batch[i], Len(batch))
FirstAncestorIds(i) == Reached(FirstRefId, batch[i], Len(batch))

Returned == grouping.state = "returned"
Positions == 1..Len(batch)

\* no two messages of the batch have the same id
DistinctIds == \A i, j \in Positions : batch[i].MessageID = batch[j].MessageID => i = j

C5_Partition ==
    Returned =>
        LET tm == grouping.threadMap
        IN /\ \A i \in Positions :
                Cardinality({ rk \in { <<root, k>> : root \in DOMAIN tm, k \in 1..MaxBatch + 1 } :
                                /\ rk[2] <= Len(tm[rk[1]])
                                /\ tm[rk[1]][rk[2]] = i }) = 1
           /\ \A root \in DOMAIN tm : Len(tm[root]) > 0
           /\ \A root \in DOMAIN tm : Members(tm, root) \subseteq Positions

C5_Witness ==
    /\ Returned
    /\ Len(batch) = MaxBatch
    /\ Cardinality(DOMAIN grouping.threadMap) >= 2
    /\ \E root \in DOMAIN grouping.threadMap : Len(grouping.threadMap[root]) >= 2

-----------------------------------------------------------------------------
(* The store under a sequence of ingestions: what is claimed of it *)

RowsOf(threadID) == {m \in messages : m.thread_id = threadID}

\* C6: after every completed storeMessagesInDB call, whatever the batches
\* before it and whether or not it moved persisted messages to another thread,
\* each thread's message_count is the number of messages whose thread_id is
\* that thread, its unique_authors the number of distinct author_email values
\* among them, and its last_message_at their greatest created_at
C6_StatsMatchMessages ==
    call.op = "store" =>
        \A t \in threads :
            /\ RowsOf(t.id) # {}
            /\ t.message_count = Cardinality(RowsOf(t.id))
            /\ t.unique_authors = Cardinality({m.author_email : m \in RowsOf(t.id)})
            /\ \E m \in RowsOf(t.id) :
                  /\ t.last_message_at = m.created_at
                  /\ \A other \in RowsOf(t.id) : other.created_at <= m.created_at

\* C6 witness: a completed call has moved a persisted message: the row first
\* stored from the reply to x, in the thread keyed by x, is now in the thread
\* keyed by a, which counts two messages
C6_Witness ==
    /\ call.op = "store"
    /\ \E m \in messages : \E t \in threads :
          /\ m.message_id = idb
          /\ m.body = <<"L", "G", "T", "M">>
          /\ m.thread_id = t.id
          /\ t.first_message_id = ida
          /\ t.message_count = 2

\* C7: after any sequence of storeMessagesInDB calls no two rows of messages
\* have the same message_id
C7_UniqueMessageId ==
    \A m1, m2 \in messages : m1.message_id = m2.message_id => m1 = m2

\* C7 witness: an upsert has met a conflict: the row stored from the reply to
\* a keeps its body and has the references of the later message of the same id
C7_Witness ==
    /\ call.op = "store"
    /\ \E m \in messages :
          /\ m.message_id = idb
          /\ m.body = PatchAttached
          /\ m.refers_to = Bracketed(idx)

\* C8 as stated: a completed storeMessagesInDB call returns the number of rows
\* of messages that were not there before the call and are there after it
C8_ReturnsNewRows ==
    [][(call'.op = "store" /\ now' = now)
          => call'.inserted = Cardinality({m.id : m \in messages'} \ {m.id : m \in messages})]_vars

\* the statistics of the threads of a store, by thread id
ThreadStats(db) ==
    {<<t.id, t.message_count, t.unique_authors, t.last_message_at>> : t \in db.threads}

\* C1 as stated: ingesting a unit a second time, the store otherwise untouched,
\* adds no message and leaves the statistics of every thread as they were
C1_ReingestChangesNothing ==
    \A unit \in Units :
        \A once \in Reconciled(Store, unit, now) :
            \A twice \in Reconciled(once, unit, now) :
                /\ Cardinality(twice.messages) = Cardinality(once.messages)
                /\ ThreadStats(once) \subseteq ThreadStats(twice)

\* the store after a step
StoreAfter == [threads |-> threads', messages |-> messages', activities |-> activities',
               inserted |-> 0]

\* C11: when a storeMessagesInDB call completes, the status of every thread
\* is what ClassifyThread gives for the thread as it is then: its
\* message_count, the time since its last message and the keywords in the
\* bodies of the messages it holds then
C11_StatusMatchesClassifier ==
    [][(call'.op = "store" /\ now' = now)
          => \A t \in threads' : t.status = ClassifyThread(StoreAfter, t.id, now').status]_vars

\* C11 witness: a call completed after the clock had moved on, and a thread
\* that is older than 30 days by then is abandoned
C11_Witness ==
    /\ call.op = "store"
    /\ now = Now0 + TickHours
    /\ \E t \in threads :
          /\ t.status = "abandoned"
          /\ t.first_message_id = ida
          /\ t.message_count = 3

-----------------------------------------------------------------------------
(* A chain of replies that arrives in pieces *)

ChainUnits ==
    UNION { {unit \in [1..n -> ChainMessages] : \A i, j \in 1..n : unit[i] = unit[j] => i = j}
            : n \in 0..MaxUnit }

NextChain ==
    \/ \E unit \in ChainUnits : processMboxFile(unit)
    \/ resetHandler
    \/ Tick

SpecChain == Init /\ [][NextChain]_vars

\* a step in which a storeMessagesInDB call completes
StoreStep == call'.op = "store" /\ now' = now

\* the rows a step adds
NewRows == {m \in messages' : \A old \in messages : old.message_id # m.message_id}

\* the first valid reference of a stored message
FirstRefOfRow(m) ==
    FirstValidRef(RefChain([RefersTo |-> m.refers_to, InReplyTo |-> m.in_reply_to]))

\* the threads whose root id names no stored message
UnobservedRoot(t) == \A m \in messages : m.message_id # t.first_message_id

\* C13 as stated: a thread was created under a root id r that names no message
\* seen so far; a later batch that brings the message with id r, or messages
\* whose first reference is r, has them stored in that thread, and there is
\* never a second thread under r
C13_MergeOnUnobservedRoot ==
    [][StoreStep =>
          \A t \in threads :
              UnobservedRoot(t) =>
                  /\ \A m \in NewRows :
                        (m.message_id = t.first_message_id \/ FirstRefOfRow(m) = t.first_message_id)
                            => m.thread_id = t.id
                  /\ Cardinality({u \in threads' : u.first_message_id = t.first_message_id}) <= 1]_vars

\* C14 as stated: a message arrives whose immediate ancestor P is not in the
\* batch but is stored, in thread T, and is left as it is by the call; the
\* message is stored in T, whether or not P is the root of T
C14_AncestorInStorage ==
    [][StoreStep =>
          \A m \in NewRows : \A p \in messages :
              (p.message_id = FirstRefOfRow(m) /\ p \in messages')
                  => m.thread_id = p.thread_id]_vars

-----------------------------------------------------------------------------
(* One batch into the empty store: a starter and its reply *)

MaxAgeDays == 40

\* the two messages in either file order
PairUnits ==
    {<<m1, m2>> : m1 \in PairStarters, m2 \in PairReplies}
    \cup {<<m2, m1>> : m1 \in PairStarters, m2 \in PairReplies}

InitPair ==
    /\ threads = {} /\ messages = {} /\ activities = {}
    /\ now \in {Now0 + d * HoursPerDay : d \in 0..MaxAgeDays}
    /\ call = [op |-> "none", inserted |-> 0]
    /\ InitSync /\ InitClass
    /\ batch = <<>>
    /\ grouping = [state |-> "idle"]

\* the one ingestion
IngestPair ==
    /\ call.op = "none"
    /\ \E unit \in PairUnits : processMboxFile(unit)

SpecPair == InitPair /\ [][IngestPair]_vars

-----------------------------------------------------------------------------
(* Classifier harness: ClassifyThread applied to every combination of features *)

MaxCount == 7
MaxHours == 750

ClassifiedThread == <<ida, 1>>

\* a store with one thread of the given features: its message_count and
\* last_message_at columns, and messages whose bodies carry the keywords
ThreadWith(in, clock) ==
    LET Row(n, body) ==
            [id |-> <<ida, n>>, thread_id |-> ClassifiedThread, message_id |-> ida,
             in_reply_to |-> Empty, refers_to |-> Empty, subject |-> <<"x">>,
             author |-> "u1", author_email |-> "u1", body |-> body,
             created_at |-> clock - in.hoursSince, has_patch |-> FALSE]
    IN [threads |-> {[id |-> ClassifiedThread,
                      subject |-> <<"x">>,
                      first_message_id |-> ida,
                      first_author_email |-> "u1",
                      created_at |-> clock - in.hoursSince,
                      last_message_at |-> clock - in.hoursSince,
                      message_count |-> in.messageCount,
                      unique_authors |-> 1,
                      status |-> "discussion"]},
        messages |-> {Row(1, <<"h", "i">>)}
                     \cup (IF in.hasPatch THEN {Row(2, PatchAttached)} ELSE {})
                     \cup (IF in.hasReview THEN {Row(3, <<"L", "G", "T", "M">>)} ELSE {}),
        activities |-> {},
        inserted |-> 0]

InitClassify ==
    /\ inputs \in [hasPatch : BOOLEAN, hasReview : BOOLEAN,
                   messageCount : 0..MaxCount, hoursSince : 0..MaxHours]
    /\ status = "none"
    /\ threads = {} /\ messages = {} /\ activities = {}
    /\ now = Now0 + TickHours
    /\ call = [op |-> "none", inserted |-> 0]
    /\ InitSync
    /\ batch = <<>>
    /\ grouping = [state |-> "idle"]

\* one call of ClassifyThread on the thread
CallClassifyThread ==
    /\ status = "none"
    /\ status' = ClassifyThread(ThreadWith(inputs, now), ClassifiedThread, now).status
    /\ UNCHANGED <<inputs, storeVars, groupVars, syncVars, hostVars>>

SpecClassify == InitClassify /\ [][CallClassifyThread]_vars

Classified == status # "none"

\* more than d days since the last message
DaysOver(d) == inputs.hoursSince > d * HoursPerDay

InProgressRule == inputs.hasPatch /\ (inputs.hasReview \/ inputs.messageCount > 3)
AbandonedRule == DaysOver(30) /\ inputs.messageCount < 5
StalledRule == DaysOver(7)

-----------------------------------------------------------------------------
(* The handlers and the goroutines they start *)

MonthNames == <<"2025-01", "2025-02", "2025-03", "2025-04">>

\* the units a run ingests
RunUnits == {<<rawA>>, <<rawA, rawB>>}

\* SyncState.Update
Update(p, monthsSynced, totalMonths, currentMonth) ==
    [p EXCEPT !.MonthsSynced = monthsSynced,
              !.TotalMonths = totalMonths,
              !.CurrentMonth = currentMonth]

\* SyncState.SetSyncing
SetSyncing(p, syncing) == [p EXCEPT !.IsSyncing = syncing]

\* SyncState.SetLatestMessageDate
SetLatestMessageDate(p, t) == [p EXCEPT !.LatestMessageDate = t]

FreeSlot(r) == runs[r] = NoRun /\ \A q \in 1..(r - 1) : runs[q] # NoRun

\* syncMboxHandler: go performMboxSync, whatever else is running
syncMboxHandler ==
    /\ \E r \in RunIds :
          /\ FreeSlot(r)
          /\ runs' = [runs EXCEPT ![r] = [NoRun EXCEPT !.kind = "sync", !.pc = "start"]]
    /\ UNCHANGED <<progress, storeVars, groupVars, classVars, hostVars>>

\* uploadMboxHandler: go processMboxFile on the file saved, whatever else is
\* running
uploadMboxHandler ==
    /\ \E r \in RunIds : \E unit \in RunUnits :
          /\ FreeSlot(r)
          /\ runs' = [runs EXCEPT ![r] = [NoRun EXCEPT !.kind = "upload", !.pc = "parse",
                                                       !.unit = unit]]
    /\ UNCHANGED <<progress, storeVars, groupVars, classVars, hostVars>>

\* performMboxSync: SetSyncing(true)
SyncStart(r) ==
    /\ runs[r].kind = "sync" /\ runs[r].pc = "start"
    /\ progress' = SetSyncing(progress, TRUE)
    /\ runs' = [runs EXCEPT ![r].pc = "range"]
    /\ UNCHANGED <<storeVars, groupVars, classVars, hostVars>>

\* performMboxSync: the months to sync and their download.  With no month the
\* run returns, and the deferred SetSyncing(false) runs.
SyncRange(r) ==
    /\ runs[r].kind = "sync" /\ runs[r].pc = "range"
    /\ \E totalMonths \in 0..MaxMonths :
          IF totalMonths = 0
          THEN /\ progress' = SetSyncing(progress, FALSE)
               /\ runs' = [runs EXCEPT ![r] = NoRun]
          ELSE /\ progress' = Update(progress, 0, totalMonths, "")
               /\ runs' = [runs EXCEPT ![r].pc = "loop", ![r].total = totalMonths]
    /\ UNCHANGED <<storeVars, groupVars, classVars, hostVars>>

\* performMboxSync, the loop over the download results up to the call of
\* storeMessagesInDB: a month that failed to download or to parse, or that
\* holds no message, is skipped
SyncMonth(r) ==
    /\ runs[r].kind = "sync" /\ runs[r].pc = "loop"
    /\ runs[r].processed < runs[r].total
    /\ progress' = Update(progress, runs[r].processed + 1, runs[r].total,
                          MonthNames[runs[r].processed + 1])
    /\ \/ runs' = [runs EXCEPT ![r].processed = @ + 1]
       \/ \E unit \in RunUnits :
             runs' = [runs EXCEPT ![r].processed = @ + 1, ![r].pc = "store", ![r].unit = unit]
    /\ UNCHANGED <<storeVars, groupVars, classVars, hostVars>>

\* the last message of a unit as parsed
LatestOf(unit, taken, clock) ==
    LET Last(msgs) == IF msgs = <<>> THEN Null ELSE msgs[Len(msgs)].CreatedAt
    IN Last(ParseMboxFile(unit, taken, clock))

\* performMboxSync: storeMessagesInDB returns, then SetLatestMessageDate.  The
\* statements of the call are applied as one write when it returns.
SyncStore(r) ==
    /\ runs[r].kind = "sync" /\ runs[r].pc = "store"
    /\ \E db \in Reconciled(Store, runs[r].unit, now) :
          /\ threads' = db.threads
          /\ messages' = db.messages
          /\ activities' = db.activities
          /\ call' = [op |-> "store", inserted |-> db.inserted]
    /\ progress' = SetLatestMessageDate(progress,
                       LatestOf(runs[r].unit, GeneratedIds(messages), now))
    /\ runs' = [runs EXCEPT ![r].pc = "loop", ![r].unit = <<>>]
    /\ UNCHANGED <<now, groupVars, classVars, hostVars>>

\* performMboxSync: after the loop, the last Update and the deferred
\* SetSyncing(false)
SyncFinish(r) ==
    /\ runs[r].kind = "sync" /\ runs[r].pc = "loop"
    /\ runs[r].processed = runs[r].total
    /\ progress' = SetSyncing(Update(progress, runs[r].total, runs[r].total, ""), FALSE)
    /\ runs' = [runs EXCEPT ![r] = NoRun]
    /\ UNCHANGED <<storeVars, groupVars, classVars, hostVars>>

\* processMboxFile: ParseMboxFile; on an error the run returns
UploadParse(r) ==
    /\ runs[r].kind = "upload" /\ runs[r].pc = "parse"
    /\ \E failed \in BOOLEAN :
          runs' = [runs EXCEPT ![r] = IF failed THEN NoRun ELSE [@ EXCEPT !.pc = "store"]]
    /\ UNCHANGED <<progress, storeVars, groupVars, classVars, hostVars>>

\* processMboxFile: storeMessagesInDB returns, and the run with it
UploadStore(r) ==
    /\ runs[r].kind = "upload" /\ runs[r].pc = "store"
    /\ \E db \in Reconciled(Store, runs[r].unit, now) :
          /\ threads' = db.threads
          /\ messages' = db.messages
          /\ activities' = db.activities
          /\ call' = [op |-> "store", inserted |-> db.inserted]
    /\ runs' = [runs EXCEPT ![r] = NoRun]
    /\ UNCHANGED <<now, progress, groupVars, classVars, hostVars>>

NextSync ==
    \/ syncMboxHandler
    \/ uploadMboxHandler
    \/ \E r \in RunIds : SyncStart(r)
    \/ \E r \in RunIds : SyncRange(r)
    \/ \E r \in RunIds : SyncMonth(r)
    \/ \E r \in RunIds : SyncStore(r)
    \/ \E r \in RunIds : SyncFinish(r)
    \/ \E r \in RunIds : UploadParse(r)
    \/ \E r \in RunIds : UploadStore(r)

SpecSync == Init /\ [][NextSync]_vars

\* the runs that are inside storeMessagesInDB
Reconciling == {r \in RunIds : runs[r].pc = "store"}

\* C2 as stated: whatever the sync and upload requests, no two runs are
\* inside storeMessagesInDB at the same time
C2_OneReconciliation == Cardinality(Reconciling) <= 1

-----------------------------------------------------------------------------
(* storeMessagesInDB statement by statement, as a reader beside it sees the store *)

\* the position of a call before its first statement and after its last
Idle == call.op \in {"none", "store"}

\* the rows a statement leaves
Write(db) ==
    /\ threads' = db.threads
    /\ messages' = db.messages
    /\ activities' = db.activities

\* the members of a group, as messages of the batch
MembersOf(root) ==
    [k \in 1..Len(grouping.threadMap[root]) |-> batch[grouping.threadMap[root][k]]]

\* processMboxFile up to the loop over the groups: the unit parsed, the batch
\* grouped, the order of the map iteration fixed
StoreBegin(unit) ==
    /\ Idle
    /\ Cardinality(GeneratedIds(messages)) + FallbacksIn(unit) <= MaxGenerated
    /\ \E msgs \in {ParseMboxFile(unit, GeneratedIds(messages), now)} :
         /\ groupByThread(msgs).returns
         /\ batch' = msgs
         /\ grouping' = [state |-> "returned", threadMap |-> groupByThread(msgs).threadMap]
         /\ \E order \in Orders(DOMAIN groupByThread(msgs).threadMap) :
              call' = [op |-> "storing", pc |-> "group", inserted |-> 0, order |-> order,
                       members |-> <<>>, threadID |-> NoThread, ids |-> {}]
    /\ UNCHANGED <<threads, messages, activities, now, classVars, syncVars, hostVars>>

\* the head of the loop body: the members sorted, the thread looked up by the
\* root id and then by the members, and inserted when there is none
StoreLookup ==
    /\ call.op = "storing" /\ call.pc = "group" /\ call.order # <<>>
    /\ \E msgs \in {sortMessagesByTime(MembersOf(Head(call.order)))} :
       \E byRoot \in {ThreadByRoot(Store, Head(call.order))} :
       \E found \in {IF byRoot # NoThread THEN byRoot ELSE ThreadOfMember(Store, msgs)} :
       \E threadID \in {IF found # NoThread THEN found
                        ELSE NewId(threads, sanitizeUTF8(Head(call.order)))} :
         /\ Write(IF found # NoThread THEN Store
                  ELSE InsertThread(Store, threadID, Head(call.order), msgs[1]))
         /\ call' = [call EXCEPT !.pc = "upsert", !.members = msgs, !.threadID = threadID]
    /\ UNCHANGED <<now, groupVars, classVars, syncVars, hostVars>>

\* the INSERT ... ON CONFLICT of one member
StoreUpsert ==
    /\ call.op = "storing" /\ call.pc = "upsert" /\ call.members # <<>>
    /\ Write(UpsertMessage(Store, call.threadID, Head(call.members)))
    /\ call' = [call EXCEPT !.members = Tail(@),
                            !.inserted = @ + RowsAffected(Store, Head(call.members))]
    /\ UNCHANGED <<now, groupVars, classVars, syncVars, hostVars>>

\* UpdateThreadActivity for the thread of the group
StoreActivity ==
    /\ call.op = "storing" /\ call.pc = "upsert" /\ call.members = <<>>
    /\ Write(UpdateThreadActivity(Store, call.threadID, now))
    /\ call' = [call EXCEPT !.pc = "classify"]
    /\ UNCHANGED <<now, groupVars, classVars, syncVars, hostVars>>

\* ClassifyThread and the UPDATE of the status, the end of the loop body
StoreClassify ==
    /\ call.op = "storing" /\ call.pc = "classify"
    /\ Write(SetStatus(Store, call.threadID, now))
    /\ call' = [call EXCEPT !.pc = "group", !.order = Tail(@)]
    /\ UNCHANGED <<now, groupVars, classVars, syncVars, hostVars>>

\* the UPDATE that refreshes every thread, after the last group
StoreRefresh ==
    /\ call.op = "storing" /\ call.pc = "group" /\ call.order = <<>>
    /\ Write(RefreshThreadStats(Store))
    /\ call' = [call EXCEPT !.pc = "delete"]
    /\ UNCHANGED <<now, groupVars, classVars, syncVars, hostVars>>

\* the DELETE of the threads without messages, and the SELECT of the ids to reclassify
StoreDelete ==
    /\ call.op = "storing" /\ call.pc = "delete"
    /\ Write(DeleteOrphanThreads(Store))
    /\ call' = [call EXCEPT !.pc = "reclassify",
                            !.ids = {t.id : t \in DeleteOrphanThreads(Store).threads}]
    /\ UNCHANGED <<now, groupVars, classVars, syncVars, hostVars>>

\* one turn of the loop that reclassifies every thread
StoreReclassify ==
    /\ call.op = "storing" /\ call.pc = "reclassify" /\ call.ids # {}
    /\ \E id \in {CHOOSE id \in call.ids : TRUE} :
         /\ Write(SetStatus(Store, id, now))
         /\ call' = [call EXCEPT !.ids = @ \ {id}]
    /\ UNCHANGED <<now, groupVars, classVars, syncVars, hostVars>>

\* return inserted
StoreReturn ==
    /\ call.op = "storing" /\ call.pc = "reclassify" /\ call.ids = {}
    /\ call' = [op |-> "store", inserted |-> call.inserted]
    /\ UNCHANGED <<threads, messages, activities, now, groupVars, classVars, syncVars, hostVars>>

NextStatements ==
    \/ \E unit \in Units : StoreBegin(unit)
    \/ StoreLookup
    \/ StoreUpsert
    \/ StoreActivity
    \/ StoreClassify
    \/ StoreRefresh
    \/ StoreDelete
    \/ StoreReclassify
    \/ StoreReturn

SpecStatements == Init /\ [][NextStatements]_vars

\* C15: whenever getThreadsHandler reads the threads relation, every thread
\* that has messages carries the count, the number of distinct authors and
\* the latest date of the messages stored for it at that moment, also while
\* a reconciliation is between two of its statements
C15_ReadersSeeAggregates ==
    \A t \in threads :
        RowsOf(t.id) # {} =>
            /\ t.message_count = CountOf(Store, t.id)
            /\ t.unique_authors = AuthorsOf(Store, t.id)
            /\ t.last_message_at = LastOf(Store, t.id)

\* what a call leaves when it has returned, statement by statement
StatementsEndReconciled ==
    Idle => /\ \A t \in threads : /\ t.message_count = CountOf(Store, t.id)
                                  /\ t.unique_authors = AuthorsOf(Store, t.id)
                                  /\ t.last_message_at = LastOf(Store, t.id)
                                  /\ t.status = ClassifyThread(Store, t.id, now).status

-----------------------------------------------------------------------------
(* DownloadMonthsConcurrent: the worker pool of fetcher.go, and the loop of *)
(* performMboxSync over the results it returns                              *)

MaxJobs == 3
MaxWorkers == 2
DefaultWorkers == 3
NoError == "nil"
DownloadErrors == {"status 404"}

\* fetcher.MonthDownload values
MonthKeys == {[Year |-> 2025, Month |-> 1], [Year |-> 2025, Month |-> 2]}

\* the lists of months a call can be given, a month possibly more than once
MonthLists == UNION {[1..n -> MonthKeys] : n \in 0..MaxJobs}

\* the worker counts a call can be given
WorkerCounts == 0..MaxWorkers

\* the empty path DownloadMonth returns with an error
NoPath == <<>>

\* the name DownloadMonth gives the file of a month
FileName(year, month) == <<"pgsql-hackers", year, month>>

\* the messages in the file of a month
FileOf(path) == IF path = FileName(2025, 1) THEN <<rawA>> ELSE <<rawA, rawB>>

\* one worker more than the count given
WorkerCount_OneMore(workers) == IF workers <= 0 THEN DefaultWorkers ELSE workers + 1

\* DownloadMonthsConcurrent: the number of workers started
WorkerCount(workers) == IF workers <= 0 THEN DefaultWorkers ELSE workers

\* the number of times a month is in a list
Occurrences(list, key) == Cardinality({i \in 1..Len(list) : list[i] = key})

\* the (Year, Month) of the results of a list
KeysOf(results) == [i \in 1..Len(results) |-> [Year |-> results[i].Year, Month |-> results[i].Month]]

\* channels with no buffer
Capacity_Unbuffered(months) == 0

\* make(chan ..., len(months)): the room of the channels of jobs and results
Capacity(months) == Len(months)

\* performMboxSync up to the call of DownloadMonthsConcurrent, and the call
\* up to the start of the workers: both channels made with room for every month
SyncDownload ==
    /\ pool = NoPool
    /\ \E months \in MonthLists : \E workers \in WorkerCounts :
         pool' = [pc |-> "spawn", months |-> months, given |-> workers,
                  worker |-> [w \in 1..WorkerCount(workers) |-> [pc |-> "unstarted"]],
                  sent |-> 0, jobs |-> <<>>, closed |-> FALSE,
                  results |-> <<>>, out |-> <<>>, attempts |-> <<>>,
                  processed |-> 0, handled |-> <<>>]
    /\ progress' = Update(SetSyncing(progress, TRUE), 0, Len(pool'.months), "")
    /\ UNCHANGED <<storeVars, groupVars, classVars, runs, process>>

\* go downloadWorker(...), once for every worker
PoolSpawn ==
    /\ pool.pc = "spawn"
    /\ \E w \in DOMAIN pool.worker :
         /\ pool.worker[w].pc = "unstarted"
         /\ \A v \in 1..(w - 1) : pool.worker[v].pc # "unstarted"
         /\ pool' = [pool EXCEPT !.worker[w] = [pc |-> "range"]]
    /\ UNCHANGED <<storeVars, groupVars, classVars, syncVars, process>>

\* jobs <- month, the first one after the last go statement; the send waits
\* while the channel is full
PoolSend ==
    /\ pool.pc \in {"spawn", "send"}
    /\ \A w \in DOMAIN pool.worker : pool.worker[w].pc # "unstarted"
    /\ pool.sent < Len(pool.months)
    /\ Len(pool.jobs) < Capacity(pool.months)
    /\ pool' = [pool EXCEPT !.pc = "send", !.sent = @ + 1,
                            !.jobs = Append(@, pool.months[pool.sent + 1])]
    /\ UNCHANGED <<storeVars, groupVars, classVars, syncVars, process>>

\* close(jobs)
PoolClose ==
    /\ pool.pc \in {"spawn", "send"}
    /\ \A w \in DOMAIN pool.worker : pool.worker[w].pc # "unstarted"
    /\ pool.sent = Len(pool.months)
    /\ pool' = [pool EXCEPT !.pc = "collect", !.closed = TRUE]
    /\ UNCHANGED <<storeVars, groupVars, classVars, syncVars, process>>

\* result := <-results; out = append(out, result)
PoolCollect ==
    /\ pool.pc = "collect"
    /\ Len(pool.out) < Len(pool.months)
    /\ pool.results # <<>>
    /\ pool' = [pool EXCEPT !.out = Append(@, Head(pool.results)), !.results = Tail(@)]
    /\ UNCHANGED <<storeVars, groupVars, classVars, syncVars, process>>

\* close(results); return out
PoolReturn ==
    /\ pool.pc = "collect"
    /\ Len(pool.out) = Len(pool.months)
    /\ pool' = [pool EXCEPT !.pc = "loop"]
    /\ UNCHANGED <<storeVars, groupVars, classVars, syncVars, process>>

\* downloadWorker: a job received from the channel, DownloadMonth called
WorkerReceive(w) ==
    /\ pool.pc # "idle"
    /\ w \in DOMAIN pool.worker
    /\ pool.worker[w].pc = "range"
    /\ pool.jobs # <<>>
    /\ pool' = [pool EXCEPT !.worker[w] = [pc |-> "download", job |-> Head(pool.jobs)],
                            !.jobs = Tail(@),
                            !.attempts = Append(@, Head(pool.jobs))]
    /\ UNCHANGED <<storeVars, groupVars, classVars, syncVars, process>>

\* a failed download tried again by the same worker
downloadWorker_RetryOnError(p, w, path, err) ==
    IF err # NoError
    THEN [p EXCEPT !.attempts = Append(@, p.worker[w].job)]
    ELSE [p EXCEPT !.worker[w] = [pc |-> "range"],
                   !.results = Append(@, [Year |-> p.worker[w].job.Year,
                                          Month |-> p.worker[w].job.Month,
                                          Path |-> path, Error |-> err])]

\* downloadWorker: the result of DownloadMonth sent, whatever it is, and the
\* worker back at the channel of jobs
downloadWorker(p, w, path, err) ==
    [p EXCEPT !.worker[w] = [pc |-> "range"],
              !.results = Append(@, [Year |-> p.worker[w].job.Year,
                                     Month |-> p.worker[w].job.Month,
                                     Path |-> path, Error |-> err])]

\* DownloadMonth returns: the path and no error, or no path and an error;
\* the send of the result waits while the channel is full
WorkerDownload(w) ==
    /\ pool.pc # "idle"
    /\ w \in DOMAIN pool.worker
    /\ pool.worker[w].pc = "download"
    /\ Len(pool.results) < Capacity(pool.months)
    /\ \/ pool' = downloadWorker(pool, w, FileName(pool.worker[w].job.Year,
                                                  pool.worker[w].job.Month), NoError)
       \/ \E err \in DownloadErrors : pool' = downloadWorker(pool, w, NoPath, err)
    /\ UNCHANGED <<storeVars, groupVars, classVars, syncVars, process>>

\* downloadWorker: the channel of jobs closed and empty, the worker returns
WorkerExit(w) ==
    /\ pool.pc # "idle"
    /\ w \in DOMAIN pool.worker
    /\ pool.worker[w].pc = "range"
    /\ pool.jobs = <<>> /\ pool.closed
    /\ pool' = [pool EXCEPT !.worker[w] = [pc |-> "exited"]]
    /\ UNCHANGED <<storeVars, groupVars, classVars, syncVars, process>>

\* the loop over the results left at the first failed download
Continue_Break(processed, total) == total

\* continue: on to the next result
Continue(processed, total) == processed + 1

\* performMboxSync, one turn of the loop over the download results: a result
\* with an error is skipped; the file of any other is parsed and, when it
\* parses and holds a message, reconciled
SyncResult ==
    /\ pool.pc = "loop"
    /\ pool.processed < Len(pool.out)
    /\ \E result \in {pool.out[pool.processed + 1]} :
       \E month \in {<<result.Year, result.Month>>} :
         IF result.Error # NoError
         THEN /\ pool' = [pool EXCEPT
                            !.processed = Continue(pool.processed, Len(pool.out)),
                            !.handled = Append(@, [result |-> pool.processed + 1,
                                                   parsed |-> FALSE, parseError |-> FALSE,
                                                   count |-> 0, stored |-> FALSE])]
              /\ progress' = Update(progress, pool.processed + 1, Len(pool.months), month)
              /\ UNCHANGED <<storeVars>>
         ELSE \E parseFailed \in BOOLEAN :
              \E msgs \in {ParseMboxFile(FileOf(result.Path), GeneratedIds(messages), now)} :
                IF parseFailed \/ msgs = <<>>
                THEN /\ pool' = [pool EXCEPT
                                   !.processed = @ + 1,
                                   !.handled = Append(@, [result |-> pool.processed + 1,
                                                          parsed |-> TRUE,
                                                          parseError |-> parseFailed,
                                                          count |-> IF parseFailed THEN 0
                                                                    ELSE Len(msgs),
                                                          stored |-> FALSE])]
                     /\ progress' = Update(progress, pool.processed + 1,
                                           Len(pool.months), month)
                     /\ UNCHANGED <<storeVars>>
                ELSE /\ \E db \in Reconciled(Store, FileOf(result.Path), now) :
                          /\ threads' = db.threads
                          /\ messages' = db.messages
                          /\ activities' = db.activities
                          /\ call' = [op |-> "store", inserted |-> db.inserted]
                     /\ pool' = [pool EXCEPT
                                   !.processed = @ + 1,
                                   !.handled = Append(@, [result |-> pool.processed + 1,
                                                          parsed |-> TRUE,
                                                          parseError |-> FALSE,
                                                          count |-> Len(msgs),
                                                          stored |-> TRUE])]
                     /\ progress' = SetLatestMessageDate(
                                        Update(progress, pool.processed + 1,
                                               Len(pool.months), month),
                                        msgs[Len(msgs)].CreatedAt)
                     /\ UNCHANGED <<now>>
    /\ UNCHANGED <<groupVars, classVars, runs, process>>

\* performMboxSync: after the loop, the last Update and the deferred
\* SetSyncing(false)
SyncReturn ==
    /\ pool.pc = "loop"
    /\ pool.processed >= Len(pool.out)
    /\ pool' = [pool EXCEPT !.pc = "done"]
    /\ progress' = SetSyncing(Update(progress, Len(pool.months), Len(pool.months), ""), FALSE)
    /\ UNCHANGED <<storeVars, groupVars, classVars, runs, process>>

Workers == 1..(MaxWorkers + DefaultWorkers)

NextPool ==
    \/ SyncDownload
    \/ PoolSpawn
    \/ PoolSend
    \/ PoolClose
    \/ PoolCollect
    \/ PoolReturn
    \/ \E w \in Workers : WorkerReceive(w)
    \/ \E w \in Workers : WorkerDownload(w)
    \/ \E w \in Workers : WorkerExit(w)
    \/ SyncResult
    \/ SyncReturn

SpecPool == Init /\ [][NextPool]_vars

\* the call of DownloadMonthsConcurrent has returned
PoolReturned == pool.pc \in {"loop", "done"}

\* C16: DownloadMonth is never called more often for a month than the month
\* is in the list, and when DownloadMonthsConcurrent has returned it has been
\* called exactly once for every entry of the list and the results hold
\* exactly one MonthResult for every entry: as many results as months, and
\* every (Year, Month) as often among them as in the list, in any order
C16_OneResultPerMonth ==
    pool.pc # "idle" =>
        /\ \A key \in MonthKeys :
              Occurrences(pool.attempts, key) <= Occurrences(pool.months, key)
        /\ PoolReturned =>
              /\ Len(pool.out) = Len(pool.months)
              /\ \A key \in MonthKeys :
                    /\ Occurrences(pool.attempts, key) = Occurrences(pool.months, key)
                    /\ Occurrences(KeysOf(pool.out), key) = Occurrences(pool.months, key)

\* three months, one of them twice, downloaded by two workers; a download
\* failed, and the results came back in another order than the months went in
C16_Witness ==
    /\ PoolReturned
    /\ Len(pool.months) = MaxJobs
    /\ pool.given = 2
    /\ pool.months[1] = pool.months[3]
    /\ KeysOf(pool.out) # pool.months
    /\ \E i \in 1..Len(pool.out) : pool.out[i].Error # NoError

\* C17: a failed download is the Error of the result of its own month and
\* of no other, and it does not end the run: when performMboxSync has
\* returned, every month of the list was downloaded and came back, the loop
\* went over every result, each result with an error was skipped, and each
\* result without an error was parsed and, when its file parsed to at least
\* one message, reconciled, wherever the failed results stand among them
C17_FailureStaysWithItsUnit ==
    pool.pc = "done" =>
        /\ Len(pool.out) = Len(pool.months)
        /\ Len(pool.attempts) = Len(pool.months)
        /\ Len(pool.handled) = Len(pool.out)
        /\ \A i \in 1..Len(pool.out) :
              /\ pool.handled[i].result = i
              /\ pool.out[i].Error # NoError =>
                    /\ pool.out[i].Path = NoPath
                    /\ ~pool.handled[i].parsed /\ ~pool.handled[i].stored
              /\ pool.out[i].Error = NoError =>
                    /\ pool.out[i].Path = FileName(pool.out[i].Year, pool.out[i].Month)
                    /\ pool.handled[i].parsed
                    /\ (~pool.handled[i].parseError /\ pool.handled[i].count > 0)
                          => pool.handled[i].stored

\* the download that came back first failed, the two that came back after it
\* did not, and their messages are in the store
C17_Witness ==
    /\ pool.pc = "done"
    /\ Len(pool.out) = 3
    /\ pool.out[1].Error # NoError
    /\ pool.out[2].Error = NoError /\ pool.handled[2].stored
    /\ pool.out[3].Error = NoError /\ pool.handled[3].stored
    /\ \E m \in messages : m.message_id = idb

\* the workers inside DownloadMonth
InFlight == {w \in DOMAIN pool.worker : pool.worker[w].pc = "download"}

\* the months not yet taken by a worker: still to be sent, or in the channel
Remaining == (Len(pool.months) - pool.sent) + Len(pool.jobs)

\* C18: during DownloadMonthsConcurrent there are never more downloads in
\* flight than the worker count given, or than 3 when the count given is 0
\* or less; and whatever the other workers are doing, no worker has returned
\* while a month remains to be taken, and a worker that waits at the channel
\* can take the next job as soon as there is one in it
C18_AtMostWorkersInFlight ==
    pool.pc # "idle" =>
        /\ Cardinality(InFlight) <= (IF pool.given <= 0 THEN 3 ELSE pool.given)
        /\ Remaining > 0 => \A w \in DOMAIN pool.worker : pool.worker[w].pc # "exited"
        /\ \A w \in DOMAIN pool.worker :
              (pool.worker[w].pc = "range" /\ pool.jobs # <<>>) => ENABLED WorkerReceive(w)

\* both of two workers are inside DownloadMonth, the first since before the
\* second finished a download that failed and took the next job; the third
\* month is still waiting
C18_Witness ==
    /\ pool.pc # "idle"
    /\ pool.given = 2
    /\ Cardinality(InFlight) = 2
    /\ Len(pool.attempts) = 3
    /\ Len(pool.results) + Len(pool.out) = 1
    /\ \E r \in {pool.results[i] : i \in 1..Len(pool.results)}
              \cup {pool.out[i] : i \in 1..Len(pool.out)} : r.Error # NoError

\* a call given no worker count has three downloads in flight
C18_WitnessDefault ==
    /\ pool.pc # "idle"
    /\ pool.given = 0
    /\ Cardinality(InFlight) = DefaultWorkers

-----------------------------------------------------------------------------
(* Ingestion runs that panic *)

\* performMboxSync panics after its defer statements: the deferred function
\* recovers the panic, then the deferred SetSyncing(false) runs, and the
\* goroutine returns
SyncPanic(r) ==
    /\ runs[r].kind = "sync" /\ runs[r].pc \in {"range", "loop", "store"}
    /\ progress' = SetSyncing(progress, FALSE)
    /\ runs' = [runs EXCEPT ![r] = NoRun]
    /\ UNCHANGED <<storeVars, groupVars, classVars, pool, process>>

\* processMboxFile panics: nothing in its goroutine recovers, and a panic
\* that reaches the top of a goroutine ends the process
UploadPanic(r) ==
    /\ runs[r].kind = "upload" /\ runs[r].pc \in {"parse", "store"}
    /\ process' = "crashed"
    /\ UNCHANGED <<storeVars, groupVars, classVars, syncVars, pool>>

\* the handlers and the runs while the process is up
NextFault ==
    \/ process = "running" /\ NextSync
    \/ \E r \in RunIds : process = "running" /\ SyncPanic(r)
    \/ \E r \in RunIds : process = "running" /\ UploadPanic(r)

SpecFault == Init /\ [][NextFault]_vars

\* C19: when a run panics, a remote-range run or a run over an uploaded
\* unit, the process is still running after the step, the run has ended, and
\* the tracker's is_running flag is false
C19_FaultIsCaught ==
    [][\A r \in RunIds :
          (SyncPanic(r) \/ UploadPanic(r))
             => /\ process' = "running"
                /\ runs'[r] = NoRun
                /\ ~progress'.IsSyncing]_vars

-----------------------------------------------------------------------------
(* ParseMboxFile over units whose messages differ in their Date header *)

MaxSkew == 2

\* units of one or two of the messages, no Message-ID twice
DateUnits ==
    {<<m>> : m \in DateMessages}
    \cup {<<m1, m2>> : m1 \in {m \in DateMessages : m.MessageID = Bracketed(ida)},
                       m2 \in {m \in DateMessages : m.MessageID = Bracketed(idb)}}

\* the validation gate: the counter a message is rejected under, if any
Rejection(msg) ==
    IF msg.MessageID = Empty THEN "InvalidMessageID"
    ELSE IF msg.Author = "" /\ msg.AuthorEmail = "" THEN "InvalidFrom"
    ELSE IF msg.CreatedAt = ZeroTime \/ msg.CreatedAt < Year1990 THEN "InvalidDate"
    ELSE "none"

\* ParseStats.InvalidDate after a unit
InvalidDate(unit, clock) ==
    Cardinality({i \in 1..Len(unit) :
        Rejection(ParseMessage(unit[i], generateFallbackMessageID(1), clock)) = "InvalidDate"})

InitDate ==
    /\ threads = {} /\ messages = {} /\ activities = {}
    /\ now \in {Now0 + k : k \in 0..MaxSkew}
    /\ call = [op |-> "none", inserted |-> 0]
    /\ InitSync /\ InitClass
    /\ batch = <<>>
    /\ grouping = [state |-> "idle"]

\* ParseMboxFile over one unit: the messages it returns and its statistics
ParseUnit ==
    /\ call.op = "none"
    /\ \E unit \in DateUnits :
         /\ batch' = ParseMboxFile(unit, {}, now)
         /\ call' = [op |-> "parse", unit |-> unit, inserted |-> 0,
                     InvalidDate |-> InvalidDate(unit, now)]
    /\ UNCHANGED <<threads, messages, activities, now, grouping, classVars, syncVars, hostVars>>

SpecDate == InitDate /\ [][ParseUnit]_vars

\* the messages of the unit parsed whose Date header is in an accepted layout
\* and spells a time from 1990 on
WithAcceptedDate(unit) ==
    {i \in 1..Len(unit) : unit[i].Date.layout \in DateLayouts /\ unit[i].Date.t >= Year1990}

\* C20: after ParseMboxFile, the messages returned are exactly those whose
\* Date header is in an accepted layout, each with the time its header
\* spells and none with the time of the parse; every other message, the one
\* with a Date in no accepted layout like the one with no Date, is counted
\* in InvalidDate
C20_UnparsedDateRejected ==
    call.op = "parse" =>
        /\ Len(batch) = Cardinality(WithAcceptedDate(call.unit))
        /\ call.InvalidDate = Len(call.unit) - Cardinality(WithAcceptedDate(call.unit))
        /\ \A k \in 1..Len(batch) :
              \E i \in WithAcceptedDate(call.unit) :
                 /\ Bracketed(batch[k].MessageID) = call.unit[i].MessageID
                 /\ batch[k].CreatedAt = call.unit[i].Date.t

-----------------------------------------------------------------------------
(* ParseMboxFile line by line: the scanner, the headers, the validation gate *)
(* and the statistics                                                        *)

MaxLines == 6

MessageIDColon == <<"M", "e", "s", "s", "a", "g", "e", "-", "I", "D", ":", " ">>

\* the lines files are made of: the delimiter, a Message-ID header that is
\* well formed, one with no "@" and a space, one with a space and an "@", a
\* From header, a Date header in an accepted layout, the empty line, and a
\* line longer than the scanner's buffer
LineFrom == <<"F", "r", "o", "m", " ", "x">>
LineMessageID == MessageIDColon \o Bracketed(ida)
LineMalformed == MessageIDColon \o <<"a", "b", "c", " ", "d", "e", "f">>
LineSpaced == MessageIDColon \o <<"<", "b", " ", "@", ">">>
LineSender == <<"F", "r", "o", "m", ":", " ", "u", "1">>
LineDate == <<"D", "a", "t", "e", ":", " ", "T">>
LineBlank == <<>>
LineTooLong == <<"...">>

Lines == {LineFrom, LineMessageID, LineMalformed, LineSpaced, LineSender, LineDate,
          LineBlank, LineTooLong}

\* bufio.Scanner gives up on a line longer than its buffer of 64 KiB
TooLong(line) == line = LineTooLong

\* the Date header values of the lines above, as parseDate sees them
DateHeaderOf(value) == IF value = <<"T">> THEN Rfc(Old) ELSE Iso(Old)

\* strings.SplitN(line, ": ", 2), for a line that contains ": "
SplitHeader(line) ==
    LET At(i) == <<SubSeq(line, 1, i - 1), SubSeq(line, i + 2, Len(line))>>
    IN At(CHOOSE i \in 1..(Len(line) - 1) :
              /\ line[i] = ":" /\ line[i + 1] = " "
              /\ \A k \in 1..(i - 1) : ~(line[k] = ":" /\ line[k + 1] = " "))

\* parseFromHeader, for a bare address
parseFromHeader(from) == [name |-> from, email |-> from]

\* &ParseStats{}
NoStats ==
    [Total |-> 0, Parsed |-> 0, Skipped |-> 0, InvalidMessageID |-> 0,
     InvalidDate |-> 0, InvalidFrom |-> 0, MalformedMessageID |-> 0]

\* &models.Message{}; given is the Message-ID header the message carries in
\* the file, if any
NoHeader == <<"none">>
NewMessage == [MessageID |-> Empty, Author |-> Empty, AuthorEmail |-> Empty,
               CreatedAt |-> ZeroTime, given |-> NoHeader]

\* currentMessage == nil
NoMessage == [MessageID |-> Empty, nil |-> TRUE]

IsNil(msg) == "nil" \in DOMAIN msg

\* the parser before the first line
NoScan ==
    [op |-> "scan", inserted |-> 0, lines |-> 0, fromLines |-> 0, cur |-> NoMessage,
     lastHeader |-> Empty, lastValue |-> Empty, inBody |-> FALSE, stats |-> NoStats,
     uuids |-> 0, err |-> FALSE, log |-> <<>>]

\* processHeader
processHeader(st, header, value, clock) ==
    IF header = <<"m", "e", "s", "s", "a", "g", "e", "-", "i", "d">>
    THEN IF cleanMessageID(value).err
         THEN [st EXCEPT !.cur.MessageID = generateFallbackMessageID(st.uuids + 1),
                         !.uuids = @ + 1,
                         !.stats.MalformedMessageID = @ + 1]
         ELSE [st EXCEPT !.cur.MessageID = cleanMessageID(value).id]
    ELSE IF header = <<"f", "r", "o", "m">>
    THEN [st EXCEPT !.cur.Author = parseFromHeader(value).name,
                    !.cur.AuthorEmail = parseFromHeader(value).email]
    ELSE IF header = <<"d", "a", "t", "e">>
    THEN [st EXCEPT !.cur.CreatedAt = parseDate(DateHeaderOf(value), clock)]
    ELSE st

\* the pending header processed, if there is one
PendingHeader(st, clock) ==
    IF st.lastHeader # Empty /\ ~IsNil(st.cur)
    THEN processHeader(st, st.lastHeader, st.lastValue, clock)
    ELSE st

\* the validation gate on the current message: the statistics, and what the
\* message was taken for
Validate(st) ==
    LET Count(reason) ==
            [st EXCEPT
               !.stats.Skipped = IF reason = "none" THEN @ ELSE @ + 1,
               !.stats.Parsed = IF reason = "none" THEN @ + 1 ELSE @,
               !.stats.InvalidMessageID = IF reason = "InvalidMessageID" THEN @ + 1 ELSE @,
               !.stats.InvalidFrom = IF reason = "InvalidFrom" THEN @ + 1 ELSE @,
               !.stats.InvalidDate = IF reason = "InvalidDate" THEN @ + 1 ELSE @,
               !.log = Append(@, [given |-> st.cur.given, id |-> st.cur.MessageID,
                                  sender |-> st.cur.AuthorEmail # Empty,
                                  date |-> st.cur.CreatedAt >= Year1990,
                                  reason |-> reason])]
    IN IF IsNil(st.cur) THEN st ELSE Count(Rejection(st.cur))

\* the messages returned so far, with the current one when it passes the gate
Output(st, out) ==
    IF ~IsNil(st.cur) /\ Rejection(st.cur) = "none"
    THEN Append(out, [MessageID |-> st.cur.MessageID, AuthorEmail |-> st.cur.AuthorEmail,
                      CreatedAt |-> st.cur.CreatedAt])
    ELSE out

\* the body of the loop over the lines, for a line the scanner returns
ScanStep(st, line, clock) ==
    IF HasPrefix(line, <<"F", "r", "o", "m", " ">>)
    THEN [Validate(PendingHeader([st EXCEPT !.stats.Total = @ + 1], clock))
             EXCEPT !.cur = NewMessage, !.inBody = FALSE,
                    !.lastHeader = Empty, !.lastValue = Empty]
    ELSE IF IsNil(st.cur) THEN st
    ELSE IF ~st.inBody /\ TrimSpace(line) = Empty
    THEN [PendingHeader(st, clock) EXCEPT !.inBody = TRUE,
                                          !.lastHeader = Empty, !.lastValue = Empty]
    ELSE IF ~st.inBody
    THEN IF Len(line) > 0 /\ (line[1] = " " \/ line[1] = TAB)
         THEN [st EXCEPT !.lastValue = @ \o <<" ">> \o TrimSpace(line)]
         ELSE IF Contains(line, <<":", " ">>)
         THEN [PendingHeader(st, clock)
                  EXCEPT !.lastHeader = ToLower(TrimSpace(SplitHeader(line)[1])),
                         !.lastValue = TrimSpace(SplitHeader(line)[2])]
         ELSE st
    ELSE st

\* the Message-ID header a line gives the current message
GivenBy(st, line) ==
    IF ~IsNil(st.cur) /\ ~st.inBody /\ HasPrefix(line, MessageIDColon)
    THEN [st EXCEPT !.cur.given = TrimSpace(SplitHeader(line)[2])]
    ELSE st

InitScan ==
    /\ threads = {} /\ messages = {} /\ activities = {}
    /\ now = Now0
    /\ call = NoScan
    /\ InitSync /\ InitClass
    /\ batch = <<>>
    /\ grouping = [state |-> "idle"]

\* one turn of the loop: scanner.Scan() returns a line, or stops at a line
\* that is too long.  A message carries at most one Message-ID header.
ScanLine(line) ==
    /\ call.op = "scan" /\ ~call.err
    /\ call.lines < MaxLines
    /\ ~(HasPrefix(line, MessageIDColon) /\ ~IsNil(call.cur) /\ ~call.inBody
           /\ call.cur.given # NoHeader)
    /\ IF TooLong(line)
       THEN /\ call' = [call EXCEPT !.err = TRUE, !.lines = @ + 1]
            /\ batch' = batch
       ELSE /\ call' = [ScanStep(GivenBy(call, line), line, now)
                           EXCEPT !.lines = @ + 1,
                                  !.fromLines = IF HasPrefix(line, <<"F", "r", "o", "m", " ">>)
                                                THEN @ + 1 ELSE @]
            /\ batch' = IF HasPrefix(line, <<"F", "r", "o", "m", " ">>)
                        THEN Output(PendingHeader(call, now), batch)
                        ELSE batch
    /\ UNCHANGED <<threads, messages, activities, now, grouping, classVars, syncVars, hostVars>>

\* a line of the file after the one the scanner stopped at: never read
Unread(line) ==
    /\ call.op = "scan" /\ call.err
    /\ call.lines < MaxLines
    /\ call' = [call EXCEPT !.lines = @ + 1,
                            !.fromLines = IF HasPrefix(line, <<"F", "r", "o", "m", " ">>)
                                          THEN @ + 1 ELSE @]
    /\ UNCHANGED <<threads, messages, activities, now, batch, grouping, classVars, syncVars, hostVars>>

\* after the loop: the last message through the gate, then the scanner's
\* error if it has one (no messages are returned then), else the messages
ScanReturn ==
    /\ call.op = "scan"
    /\ call' = [Validate(call) EXCEPT !.op = "parsed"]
    /\ batch' = IF call.err THEN <<>> ELSE Output(call, batch)
    /\ UNCHANGED <<threads, messages, activities, now, grouping, classVars, syncVars, hostVars>>

NextScan ==
    \/ \E line \in Lines : ScanLine(line)
    \/ \E line \in Lines : Unread(line)
    \/ ScanReturn

SpecScan == InitScan /\ [][NextScan]_vars

\* a Message-ID header value with no "@" or with whitespace in it
MalformedValue(value) ==
    \/ ~Contains(value, <<"@">>)
    \/ \E i \in 1..Len(value) : value[i] \in WhiteSpace

\* the messages of the file that carry a malformed Message-ID header
MalformedInLog == {i \in 1..Len(call.log) :
                      call.log[i].given # NoHeader /\ MalformedValue(call.log[i].given)}

\* C21: when ParseMboxFile has read a file to its end, every message whose
\* Message-ID header is there and malformed (no "@", or whitespace in it)
\* has a generated id that no other message of the file has, is not rejected
\* for its Message-ID, is returned when its sender and date are valid, and is
\* one of the messages MalformedMessageID counts
C21_MalformedIdRepaired ==
    (call.op = "parsed" /\ ~call.err) =>
        /\ \A i \in MalformedInLog :
              /\ IsGenerated(call.log[i].id)
              /\ \A j \in 1..Len(call.log) : call.log[j].id = call.log[i].id => j = i
              /\ call.log[i].reason # "InvalidMessageID"
              /\ (call.log[i].sender /\ call.log[i].date) => call.log[i].reason = "none"
        /\ call.stats.MalformedMessageID = Cardinality(MalformedInLog)

\* C22: when ParseMboxFile returns, whatever the file, every message of the
\* file went through the validation gate, and the statistics satisfy
\* Total = Parsed + Skipped, Skipped = InvalidMessageID + InvalidFrom +
\* InvalidDate, Parsed = the number of messages returned, and Total = the
\* number of lines of the file that begin with "From "
C22_StatisticsAddUp ==
    call.op = "parsed" =>
        /\ Len(call.log) = call.fromLines
        /\ call.stats.Total = call.stats.Parsed + call.stats.Skipped
        /\ call.stats.Skipped = call.stats.InvalidMessageID + call.stats.InvalidFrom
                                  + call.stats.InvalidDate
        /\ call.stats.Parsed = Len(batch)
        /\ call.stats.Total = call.fromLines

-----------------------------------------------------------------------------
(* One message ingested again and again in different versions *)

\* a unit holds one version of b@, or the message a@ it may refer to
VersionUnits == {<<v>> : v \in Versions} \cup {<<rawA>>}

\* processMboxFile, with the messages it parsed kept in batch
IngestVersion(unit) ==
    /\ \E db \in Reconciled(Store, unit, now) :
         /\ threads' = db.threads
         /\ messages' = db.messages
         /\ activities' = db.activities
         /\ call' = [op |-> "store", inserted |-> db.inserted]
    /\ batch' = ParseMboxFile(unit, GeneratedIds(messages), now)
    /\ UNCHANGED <<now, grouping, classVars, syncVars, hostVars>>

NextVersions ==
    \/ \E unit \in VersionUnits : IngestVersion(unit)
    \/ resetHandler

SpecVersions == Init /\ [][NextVersions]_vars

\* the thread a call stores a unit of one message in: the thread keyed by the
\* message's root if there is one, else the thread the message is in already
IncomingThread(msg, old) ==
    LET Pick(byRoot) == IF byRoot # NoThread THEN byRoot ELSE old.thread_id
    IN Pick(ThreadByRoot(Store, CHOOSE root \in DOMAIN groupByThread(<<msg>>).threadMap : TRUE))

\* C23: when a call of storeMessagesInDB upserts a message whose message_id
\* is stored already, the stored row keeps its id, subject, author,
\* author_email, body and created_at, and its thread_id, in_reply_to,
\* refers_to, has_patch, patch_status and commitfest_id are those of the
\* incoming message
C23_ConflictKeepsContent ==
    [][call'.op = "store" =>
             \A msg \in {batch'[1]} :
             \A old \in {m \in messages : m.message_id = msg.MessageID} :
                \E new \in messages' :
                   /\ new.message_id = old.message_id
                   /\ new.id = old.id
                   /\ new.subject = old.subject
                   /\ new.author = old.author
                   /\ new.author_email = old.author_email
                   /\ new.body = old.body
                   /\ new.created_at = old.created_at
                   /\ new.thread_id = IncomingThread(msg, old)
                   /\ new.in_reply_to = msg.InReplyTo
                   /\ new.refers_to = msg.RefersTo
                   /\ new.has_patch = msg.HasPatch
                   /\ new.patch_status = msg.PatchStatus
                   /\ new.commitfest_id = msg.CommitFestID]_vars

\* b@ is stored as it first came, from u1 at the old date under subject x
\* with no patch and no ancestor, and with the thread, the references and the
\* patch flags of a later version that differed in every field
C23_Witness ==
    /\ call.op = "store"
    /\ \E m \in messages : \E t \in threads :
          /\ m.message_id = idb
          /\ m.subject = <<"x">> /\ m.author_email = "u1" /\ m.created_at = Old
          /\ m.body = <<"h", "i">>
          /\ m.refers_to = Bracketed(ida) /\ m.in_reply_to = ida
          /\ m.has_patch /\ m.patch_status = "committed"
          /\ t.id = m.thread_id /\ t.first_message_id = ida
          /\ \E a \in messages : a.message_id = ida /\ a.thread_id = t.id

-----------------------------------------------------------------------------
(* Two runs of processMboxFile side by side, statement by statement *)

\* the units the two runs ingest
SideUnits == {<<rawA>>, <<rawB2>>}

\* processMboxFile up to the loop over the groups, for the order the map
\* iteration takes
BeginRun(unit, taken, clock, order) ==
    [kind |-> "upload", pc |-> "group", processed |-> 0, total |-> 0, unit |-> unit,
     batch |-> ParseMboxFile(unit, taken, clock),
     threadMap |-> groupByThread(ParseMboxFile(unit, taken, clock)).threadMap,
     order |-> order, members |-> <<>>, threadID |-> NoThread, ids |-> {}, inserted |-> 0]

\* the next statement of storeMessagesInDB for a run at position st, on the
\* store db: the position and the store after it.  The foreign key of
\* messages.thread_id refuses a message whose thread is not there; the
\* lookups by member that return an error (unseen) count as nothing found.
Statement(st, db, clock, unseen) ==
    LET Lookup(root, msgs) ==
            LET Adopt(byRoot) ==
                    LET Use(found) ==
                            LET Into(threadID) ==
                                    [st |-> [st EXCEPT !.pc = "upsert", !.members = msgs,
                                                       !.threadID = threadID],
                                     db |-> IF found # NoThread THEN db
                                            ELSE InsertThread(db, threadID, root, msgs[1])]
                            IN Into(IF found # NoThread THEN found
                                    ELSE NewId(db.threads, sanitizeUTF8(root)))
                    IN Use(IF byRoot # NoThread THEN byRoot
                       ELSE ThreadOfMember(
                                [db EXCEPT !.messages =
                                     {m \in @ : m.message_id \notin unseen}], msgs))
            IN Adopt(ThreadByRoot(db, root))
    IN IF st.pc = "group" /\ st.order # <<>>
       THEN Lookup(Head(st.order),
                   sortMessagesByTime([k \in 1..Len(st.threadMap[Head(st.order)]) |->
                                          st.batch[st.threadMap[Head(st.order)][k]]]))
       ELSE IF st.pc = "upsert" /\ st.members # <<>>
       THEN IF \E t \in db.threads : t.id = st.threadID
            THEN [st |-> [st EXCEPT !.members = Tail(@),
                                    !.inserted = @ + RowsAffected(db, Head(st.members))],
                  db |-> UpsertMessage(db, st.threadID, Head(st.members))]
            ELSE [st |-> [st EXCEPT !.members = Tail(@)], db |-> db]
       ELSE IF st.pc = "upsert"
       THEN [st |-> [st EXCEPT !.pc = "classify"],
             db |-> UpdateThreadActivity(db, st.threadID, clock)]
       ELSE IF st.pc = "classify"
       THEN [st |-> [st EXCEPT !.pc = "group", !.order = Tail(@)],
             db |-> SetStatus(db, st.threadID, clock)]
       ELSE IF st.pc = "group"
       THEN [st |-> [st EXCEPT !.pc = "delete"], db |-> RefreshThreadStats(db)]
       ELSE IF st.pc = "delete"
       THEN [st |-> [st EXCEPT !.pc = "reclassify",
                               !.ids = {t.id : t \in DeleteOrphanThreads(db).threads}],
             db |-> DeleteOrphanThreads(db)]
       ELSE IF st.pc = "reclassify" /\ st.ids # {}
       THEN [st |-> [st EXCEPT !.ids = @ \ {CHOOSE id \in st.ids : TRUE}],
             db |-> SetStatus(db, CHOOSE id \in st.ids : TRUE, clock)]
       ELSE [st |-> NoRun, db |-> db]

\* uploadMboxHandler: go processMboxFile, whatever else is running; the run
\* parses its file and groups the messages
RunBegin(r) ==
    /\ runs[r] = NoRun
    /\ \E unit \in SideUnits :
       \E order \in Orders(DOMAIN groupByThread(
                               ParseMboxFile(unit, GeneratedIds(messages), now)).threadMap) :
          runs' = [runs EXCEPT ![r] = BeginRun(unit, GeneratedIds(messages), now, order)]
    /\ UNCHANGED <<storeVars, groupVars, classVars, progress, hostVars>>

\* a run executes its next statement, or returns after its last
RunStatement(r) ==
    /\ runs[r] # NoRun
    /\ \E next \in {Statement(runs[r], Store, now, {})} :
          /\ runs' = [runs EXCEPT ![r] = next.st]
          /\ threads' = next.db.threads
          /\ messages' = next.db.messages
          /\ activities' = next.db.activities
          /\ call' = IF next.st = NoRun
                     THEN [op |-> "store", inserted |-> runs[r].inserted]
                     ELSE call
    /\ UNCHANGED <<now, groupVars, classVars, progress, hostVars>>

NextRuns ==
    \/ \E r \in RunIds : RunBegin(r)
    \/ \E r \in RunIds : RunStatement(r)

SpecRuns == Init /\ [][NextRuns]_vars

\* C24: ingestion removes a thread only when no stored message references it
\* at that moment, so a thread that has messages is never deleted; and when
\* a call of storeMessagesInDB has returned and no other is under way, no
\* thread is without messages
C24_OnlyEmptyThreadsDeleted ==
    [][/\ \A t \in threads :
             (\A u \in threads' : u.id # t.id) => RowsOf(t.id) = {}
       /\ (\A r \in RunIds : runs'[r] = NoRun) =>
             \A u \in threads' : \E m \in messages' : m.thread_id = u.id]_vars

-----------------------------------------------------------------------------
(* One run of storeMessagesInDB whose statements can fail *)

\* the files of the run: one group of two messages, and two groups of one
ErrorUnits == {<<rawA, rawB>>, <<rawA, rawB2>>}

\* what the statements that can fail return
Outcomes == {"ok", "error"}

\* continue in the loop over the groups: the group's messages are left alone
SkipGroup(st) == [st EXCEPT !.pc = "group", !.order = Tail(@)]

\* break instead: the rest of the group is given up
SkipMessage_Break(st) == [st EXCEPT !.members = <<>>]

\* continue in the loop over the messages of a group
SkipMessage(st) == [st EXCEPT !.members = Tail(@)]

\* the statements attempted by the run so far, in order (a ghost record)
Attempt(kind, key, ok) == [kind |-> kind, key |-> key, ok |-> ok]

\* processMboxFile starts on a file
ErrBegin ==
    /\ runs[1] = NoRun
    /\ \E unit \in ErrorUnits :
       \E order \in Orders(DOMAIN groupByThread(
                               ParseMboxFile(unit, GeneratedIds(messages), now)).threadMap) :
          runs' = [runs EXCEPT ![1] = BeginRun(unit, GeneratedIds(messages), now, order)]
    /\ call' = [op |-> "attempts", log |-> <<>>]
    /\ UNCHANGED <<threads, messages, activities, now, groupVars, classVars, progress,
                   hostVars>>

\* the next statement of the run, with what the store answers: the lookup by
\* root, the insert of the thread and the upsert of a message can fail, and
\* so can each lookup by member
ErrStatement ==
    /\ runs[1] # NoRun
    /\ \E outcome \in Outcomes :
       \E unseen \in SUBSET {runs[1].batch[k].MessageID : k \in DOMAIN runs[1].batch} :
       \E stmt \in {IF runs[1].pc = "group" /\ runs[1].order # <<>>
                    THEN Attempt("thread", Head(runs[1].order), outcome = "ok")
                    ELSE IF runs[1].pc = "upsert" /\ runs[1].members # <<>>
                    THEN Attempt("message", Head(runs[1].members).MessageID, outcome = "ok")
                    ELSE IF runs[1].pc = "group" THEN Attempt("refresh", Empty, TRUE)
                    ELSE Attempt(runs[1].pc, Empty, TRUE)} :
          /\ stmt.kind \notin {"thread", "message"} => outcome = "ok"
          /\ stmt.kind # "thread" => unseen = {}
          /\ \E next \in {IF outcome = "ok" THEN Statement(runs[1], Store, now, unseen)
                          ELSE IF stmt.kind = "thread"
                          THEN [st |-> SkipGroup(runs[1]), db |-> Store]
                          ELSE [st |-> SkipMessage(runs[1]), db |-> Store]} :
                /\ runs' = [runs EXCEPT ![1] = next.st]
                /\ threads' = next.db.threads
                /\ messages' = next.db.messages
                /\ activities' = next.db.activities
                /\ call' = IF next.st = NoRun
                           THEN [op |-> "store", inserted |-> runs[1].inserted,
                                 log |-> Append(call.log, stmt),
                                 batch |-> runs[1].batch, threadMap |-> runs[1].threadMap]
                           ELSE [call EXCEPT !.log = Append(@, stmt)]
    /\ UNCHANGED <<now, groupVars, classVars, progress, hostVars>>

NextErrors == ErrBegin \/ ErrStatement

SpecErrors == Init /\ [][NextErrors]_vars

\* how often the run attempted the statement of this kind for this key
AttemptsOf(log, kind, key) ==
    Cardinality({i \in DOMAIN log : log[i].kind = kind /\ log[i].key = key})

\* the group's lookup or insert of its thread went through
ThreadAttemptOk(log, root) ==
    \E i \in DOMAIN log : log[i].kind = "thread" /\ log[i].key = root /\ log[i].ok

\* the recompute, the cleanup and the reclassification ran, once each and in
\* this order, after every group
EndOfBatchRan(log) ==
    /\ AttemptsOf(log, "refresh", Empty) = 1
    /\ AttemptsOf(log, "delete", Empty) = 1
    /\ \E i, j \in DOMAIN log :
          /\ i < j /\ j < Len(log)
          /\ log[i].kind = "refresh" /\ log[j].kind = "delete"
          /\ log[Len(log)].kind = "reclassify"
          /\ \A k \in DOMAIN log : log[k].kind \in {"thread", "message"} => k < i

\* a run of storeMessagesInDB has returned, with the record of its attempts
AttemptsReturned == call.op = "store" /\ "log" \in DOMAIN call

\* C25 as stated: whatever lookup, thread insert or upsert failed, every group
\* and every message of the batch was attempted exactly once when the call
\* returns, and the recompute, cleanup and reclassification ran
C25_EveryRecordAttempted ==
    AttemptsReturned =>
        /\ \A root \in DOMAIN call.threadMap : AttemptsOf(call.log, "thread", root) = 1
        /\ \A k \in DOMAIN call.batch :
              AttemptsOf(call.log, "message", call.batch[k].MessageID) = 1
        /\ EndOfBatchRan(call.log)

\* C25, amended: every group is attempted exactly once; every message of a
\* group whose thread was found or inserted is attempted exactly once, also
\* after a failed upsert in the group; the messages of a group whose lookup by
\* root or thread insert failed are not attempted; and the recompute, cleanup
\* and reclassification ran
C25_BatchContinues ==
    AttemptsReturned =>
        /\ \A root \in DOMAIN call.threadMap :
              /\ AttemptsOf(call.log, "thread", root) = 1
              /\ \A n \in DOMAIN call.threadMap[root] :
                    AttemptsOf(call.log, "message",
                               call.batch[call.threadMap[root][n]].MessageID)
                        = IF ThreadAttemptOk(call.log, root) THEN 1 ELSE 0
        /\ EndOfBatchRan(call.log)

\* a run returned in which the lookup of the thread of a@ failed, a@ was
\* not attempted, and the group of b@ was attempted after it and stored
C25_Witness ==
    /\ AttemptsReturned
    /\ \E i, j \in DOMAIN call.log :
          /\ i < j
          /\ call.log[i] = Attempt("thread", ida, FALSE)
          /\ call.log[j] = Attempt("message", idb, TRUE)
    /\ AttemptsOf(call.log, "message", ida) = 0
    /\ \E m \in messages : m.message_id = idb

-----------------------------------------------------------------------------
(* SyncState field by field: the writers, a reader and the lock *)

\* the calls of Update a run with two months makes
UpdateCalls == {<<0, 2, "">>, <<1, 2, MonthNames[1]>>, <<2, 2, MonthNames[2]>>, <<2, 2, "">>}

\* the calls the goroutines of the runs make on GlobalSyncState
WriterCalls ==
    {[kind |-> "Update", pc |-> "Lock", monthsSynced |-> c[1], totalMonths |-> c[2],
      currentMonth |-> c[3]] : c \in UpdateCalls}
    \cup {[kind |-> "SetSyncing", pc |-> "Lock", syncing |-> b] : b \in BOOLEAN}
    \cup {[kind |-> "SetLatestMessageDate", pc |-> "Lock", t |-> t] : t \in {Old, Recent}}

\* sync.RWMutex: Lock waits for the writer and the readers to leave
CanLock(mu) == ~mu.writer /\ mu.readers = 0

\* Get without RLock
CanRLock_Always(mu) == TRUE

\* sync.RWMutex: RLock waits for the writer to leave
CanRLock(mu) == ~mu.writer

\* the reader is not in Get
NoGet == [pc |-> "idle", snap |-> [MonthsSynced |-> 0, TotalMonths |-> 0, CurrentMonth |-> "",
                                   IsSyncing |-> FALSE, LatestMessageDate |-> Null]]

InitLock ==
    /\ threads = {} /\ messages = {} /\ activities = {}
    /\ now = Now0
    /\ call = [op |-> "sync-state", mu |-> [writer |-> FALSE, readers |-> 0], get |-> NoGet,
               inserted |-> 0]
    /\ InitSync /\ InitClass
    /\ batch = <<>>
    /\ grouping = [state |-> "idle"]

\* a goroutine of a run calls Update, SetSyncing or SetLatestMessageDate
WriterCall(r) ==
    /\ runs[r] = NoRun
    /\ \E c \in WriterCalls : runs' = [runs EXCEPT ![r] = c]
    /\ UNCHANGED <<storeVars, groupVars, classVars, progress, hostVars>>

\* the next statement of the writer's method: s.mu.Lock(), the assignments
\* one field after the other, and the deferred s.mu.Unlock()
WriterStep(r) ==
    /\ runs[r] # NoRun
    /\ \E st \in {runs[r]} :
          \/ /\ st.pc = "Lock" /\ CanLock(call.mu)
             /\ call' = [call EXCEPT !.mu.writer = TRUE]
             /\ runs' = [runs EXCEPT ![r].pc = IF st.kind = "Update" THEN "MonthsSynced"
                                                ELSE IF st.kind = "SetSyncing" THEN "IsSyncing"
                                                ELSE "LatestMessageDate"]
             /\ UNCHANGED progress
          \/ /\ st.pc = "MonthsSynced"
             /\ progress' = [progress EXCEPT !.MonthsSynced = st.monthsSynced]
             /\ runs' = [runs EXCEPT ![r].pc = "TotalMonths"]
             /\ UNCHANGED call
          \/ /\ st.pc = "TotalMonths"
             /\ progress' = [progress EXCEPT !.TotalMonths = st.totalMonths]
             /\ runs' = [runs EXCEPT ![r].pc = "CurrentMonth"]
             /\ UNCHANGED call
          \/ /\ st.pc = "CurrentMonth"
             /\ progress' = [progress EXCEPT !.CurrentMonth = st.currentMonth]
             /\ runs' = [runs EXCEPT ![r].pc = "Unlock"]
             /\ UNCHANGED call
          \/ /\ st.pc = "IsSyncing"
             /\ progress' = [progress EXCEPT !.IsSyncing = st.syncing]
             /\ runs' = [runs EXCEPT ![r].pc = "Unlock"]
             /\ UNCHANGED call
          \/ /\ st.pc = "LatestMessageDate"
             /\ progress' = [progress EXCEPT !.LatestMessageDate = st.t]
             /\ runs' = [runs EXCEPT ![r].pc = "Unlock"]
             /\ UNCHANGED call
          \/ /\ st.pc = "Unlock"
             /\ call' = [call EXCEPT !.mu.writer = FALSE]
             /\ runs' = [runs EXCEPT ![r] = NoRun]
             /\ UNCHANGED progress
    /\ UNCHANGED <<threads, messages, activities, now, groupVars, classVars, hostVars>>

\* getSyncProgressHandler calls Get
ReaderCall ==
    /\ call.get.pc \in {"idle", "returned"}
    /\ call' = [call EXCEPT !.get = [NoGet EXCEPT !.pc = "RLock"]]
    /\ UNCHANGED <<threads, messages, activities, now, groupVars, classVars, syncVars,
                   hostVars>>

\* the next statement of Get: s.mu.RLock(), the copy of s.Progress one field
\* after the other, the deferred s.mu.RUnlock() and the return
ReaderStep ==
    /\ \E get \in {call.get} :
          \/ /\ get.pc = "RLock" /\ CanRLock(call.mu)
             /\ call' = [call EXCEPT !.mu.readers = @ + 1, !.get.pc = "MonthsSynced"]
          \/ /\ get.pc = "MonthsSynced"
             /\ call' = [call EXCEPT !.get.snap.MonthsSynced = progress.MonthsSynced,
                                     !.get.pc = "TotalMonths"]
          \/ /\ get.pc = "TotalMonths"
             /\ call' = [call EXCEPT !.get.snap.TotalMonths = progress.TotalMonths,
                                     !.get.pc = "CurrentMonth"]
          \/ /\ get.pc = "CurrentMonth"
             /\ call' = [call EXCEPT !.get.snap.CurrentMonth = progress.CurrentMonth,
                                     !.get.pc = "IsSyncing"]
          \/ /\ get.pc = "IsSyncing"
             /\ call' = [call EXCEPT !.get.snap.IsSyncing = progress.IsSyncing,
                                     !.get.pc = "LatestMessageDate"]
          \/ /\ get.pc = "LatestMessageDate"
             /\ call' = [call EXCEPT !.get.snap.LatestMessageDate = progress.LatestMessageDate,
                                     !.get.pc = "RUnlock"]
          \/ /\ get.pc = "RUnlock"
             /\ call' = [call EXCEPT !.mu.readers = @ - 1, !.get.pc = "returned"]
    /\ UNCHANGED <<threads, messages, activities, now, groupVars, classVars, syncVars,
                   hostVars>>

NextLock ==
    \/ \E r \in RunIds : WriterCall(r)
    \/ \E r \in RunIds : WriterStep(r)
    \/ ReaderCall
    \/ ReaderStep

SpecLock == InitLock /\ [][NextLock]_vars

\* the reader is copying the fields
Copying ==
    call.get.pc \in {"MonthsSynced", "TotalMonths", "CurrentMonth", "IsSyncing",
                     "LatestMessageDate"}

\* a writer is between its Lock and its Unlock
Writing(r) == runs[r] # NoRun /\ runs[r].pc # "Lock"

\* C26: the snapshot Get returns has MonthsSynced, TotalMonths and
\* CurrentMonth of one and the same call of Update (or the values
\* GlobalSyncState is declared with),
\* and the reader never copies while a writer is between its first and its
\* last assignment
C26_SnapshotFromOneUpdate ==
    /\ call.get.pc = "returned" =>
          <<call.get.snap.MonthsSynced, call.get.snap.TotalMonths,
            call.get.snap.CurrentMonth>> \in UpdateCalls \cup {<<0, 0, "">>}
    /\ Copying => \A r \in RunIds : ~Writing(r)

\* Get returned the values of the second call of Update, and the third call
\* has since written its first field
C26_Witness ==
    /\ call.get.pc = "returned"
    /\ call.get.snap.MonthsSynced = 1
    /\ call.get.snap.CurrentMonth = MonthNames[1]
    /\ progress.MonthsSynced = 2 /\ progress.CurrentMonth = MonthNames[1]
    /\ \E r \in RunIds : Writing(r)

-----------------------------------------------------------------------------
(* DownloadMonth and the files of the data directory *)

\* no file of that name
NoFile == [present |-> FALSE, body |-> <<>>]

\* a file holding these messages
File(body) == [present |-> TRUE, body |-> body]

\* what the archive serves for a month: the month as it was, or with a
\* message that arrived late
Bodies == {<<rawA>>, <<rawA, rawB>>}

\* what can happen to a request and to the file written from it
Responses ==
    {[kind |-> k, body |-> <<>>] :
         k \in {"transport error", "status 404", "mkdir error", "create error", "copy error"}}
    \cup {[kind |-> "ok", body |-> body] : body \in Bodies}

\* the download is never skipped
Cached_Never(files, key, skipIfExists) == FALSE

\* skipIfExists and os.Stat finds the file
Cached(files, key, skipIfExists) == skipIfExists /\ files[key] # NoFile

\* DownloadMonth: the path and the error returned, the files afterwards and
\* the number of requests sent.  os.Create truncates the file, and a copy
\* that fails removes it.
DownloadMonth(files, key, skipIfExists, response) ==
    IF Cached(files, key, skipIfExists)
    THEN [path |-> FileName(key.Year, key.Month), err |-> NoError, files |-> files,
          requests |-> 0]
    ELSE IF response.kind \in {"transport error", "status 404", "mkdir error", "create error"}
    THEN [path |-> NoPath, err |-> response.kind, files |-> files, requests |-> 1]
    ELSE IF response.kind = "copy error"
    THEN [path |-> NoPath, err |-> response.kind, files |-> [files EXCEPT ![key] = NoFile],
          requests |-> 1]
    ELSE [path |-> FileName(key.Year, key.Month), err |-> NoError,
          files |-> [files EXCEPT ![key] = File(response.body)], requests |-> 1]

InitFetch ==
    /\ threads = {} /\ messages = {} /\ activities = {}
    /\ now = Now0
    /\ call = [op |-> "none", inserted |-> 0, files |-> [key \in MonthKeys |-> NoFile]]
    /\ InitSync /\ InitClass
    /\ batch = <<>>
    /\ grouping = [state |-> "idle"]

\* downloadWorker calls DownloadMonth for a month
FetchMonth ==
    /\ \E key \in MonthKeys : \E skipIfExists \in BOOLEAN : \E response \in Responses :
       \E out \in {DownloadMonth(call.files, key, skipIfExists, response)} :
          call' = [op |-> "DownloadMonth", inserted |-> 0, files |-> out.files,
                   key |-> key, skipIfExists |-> skipIfExists, response |-> response,
                   before |-> call.files[key], path |-> out.path, err |-> out.err,
                   requests |-> out.requests]
    /\ UNCHANGED <<threads, messages, activities, now, groupVars, classVars, syncVars,
                   hostVars>>

\* performMboxSync with cfg.CleanupMboxFiles: os.Remove of a file ingested
CleanupFile ==
    /\ \E key \in MonthKeys :
          /\ call.files[key] # NoFile
          /\ call' = [op |-> "Remove", inserted |-> 0,
                      files |-> [call.files EXCEPT ![key] = NoFile]]
    /\ UNCHANGED <<threads, messages, activities, now, groupVars, classVars, syncVars,
                   hostVars>>

NextFetch == FetchMonth \/ CleanupFile

SpecFetch == InitFetch /\ [][NextFetch]_vars

\* C27: a call with skipIfExists and the file present returns the path and
\* no error, sends no request and leaves the file as it was; a call without
\* skipIfExists sends the request, and when it succeeds the file holds what
\* the archive served
C27_CacheOrRefetch ==
    call.op = "DownloadMonth" =>
        /\ (call.skipIfExists /\ call.before # NoFile) =>
              /\ call.path = FileName(call.key.Year, call.key.Month)
              /\ call.err = NoError
              /\ call.requests = 0
              /\ call.files[call.key] = call.before
        /\ ~call.skipIfExists =>
              /\ call.requests = 1
              /\ call.err = NoError =>
                    /\ call.path = FileName(call.key.Year, call.key.Month)
                    /\ call.files[call.key] = File(call.response.body)

\* a call with skipIfExists found the file of 2025-01 and left it as it was
\* although the archive now serves the month with one message more
C27_WitnessCached ==
    /\ call.op = "DownloadMonth"
    /\ call.skipIfExists /\ call.before = File(<<rawA>>)
    /\ call.response = [kind |-> "ok", body |-> <<rawA, rawB>>]
    /\ call.requests = 0 /\ call.files[call.key] = File(<<rawA>>)

-----------------------------------------------------------------------------
(* Reset, and the range of the sync that follows *)

initialSyncDays == 365

\* the date the sync state still holds
LastMessageAt_FromSyncState(db) == progress.LatestMessageDate

\* SELECT MAX(created_at) FROM messages: NULL on no row
LastMessageAt(db) ==
    IF db.messages = {} THEN Null ELSE Max({m.created_at : m \in db.messages})

\* performMboxSync: where the range starts, the first day of the month of the
\* last message or of the day initialSyncDays ago
RangeStart(lastMessageAt, clock) ==
    IF lastMessageAt # Null /\ lastMessageAt # ZeroTime
    THEN [from |-> "last message", monthOf |-> lastMessageAt]
    ELSE [from |-> "lookback", monthOf |-> clock - initialSyncDays * HoursPerDay]

\* performMboxSync, run to its end with no other run beside it: the range,
\* and the months that hold messages reconciled one after the other
performMboxSync ==
    /\ \E units \in {<<>>} \cup {<<unit>> : unit \in RunUnits} :
       \E start \in {RangeStart(LastMessageAt(Store), now)} :
          IF units = <<>>
          THEN /\ call' = [op |-> "sync", inserted |-> 0, previous |-> call.op,
                           at |-> now, start |-> start]
               /\ UNCHANGED <<threads, messages, activities, progress>>
          ELSE \E db \in Reconciled(Store, units[1], now) :
                 /\ threads' = db.threads
                 /\ messages' = db.messages
                 /\ activities' = db.activities
                 /\ call' = [op |-> "sync", inserted |-> db.inserted,
                             previous |-> call.op, at |-> now, start |-> start]
                 /\ progress' = SetLatestMessageDate(
                                    Update(progress, 1, 1, ""),
                                    LatestOf(units[1], GeneratedIds(messages), now))
    /\ UNCHANGED <<now, groupVars, classVars, runs, hostVars>>

NextReset ==
    \/ performMboxSync
    \/ \E unit \in RunUnits : processMboxFile(unit)
    \/ resetHandler
    \/ Tick

SpecReset == Init /\ [][NextReset]_vars

\* C28: when the reset has returned the three relations are empty, and the
\* sync that runs next, with nothing ingested in between, starts its range at
\* the month of the day initialSyncDays ago, not at a last message
C28_ResetStartsOver ==
    /\ call.op = "reset" => threads = {} /\ messages = {} /\ activities = {}
    /\ (call.op = "sync" /\ call.previous = "reset") =>
          call.start = [from |-> "lookback",
                        monthOf |-> call.at - initialSyncDays * HoursPerDay]

\* a sync ran right after a reset and started at the lookback window, the
\* sync state still holding the date of a message stored before the reset
C28_Witness ==
    /\ call.op = "sync" /\ call.previous = "reset"
    /\ call.start.from = "lookback"
    /\ call.inserted = 0 /\ messages = {}
    /\ progress.LatestMessageDate = Recent

-----------------------------------------------------------------------------
(* The loop of performMboxSync over the download results, call by call *)

\* what a run has called and what has returned, in order (a ghost record)
Event(phase, unit, edge) == [phase |-> phase, unit |-> unit, edge |-> edge]

\* performMboxSync up to the loop: DownloadMonthsConcurrent has returned the
\* results of the months
LoopBegin(r) ==
    /\ runs[r] = NoRun
    /\ \E totalMonths \in 1..MaxMonths :
          /\ runs' = [runs EXCEPT ![r] = [kind |-> "sync", pc |-> "loop", processed |-> 0,
                                          total |-> totalMonths, unit |-> <<>>, log |-> <<>>]]
          /\ progress' = Update(SetSyncing(progress, TRUE), 0, totalMonths, "")
    /\ UNCHANGED <<storeVars, groupVars, classVars, hostVars>>

\* the turns started without waiting for the calls of the turn before
TurnOver_NoWait(st) == TRUE

\* the loop is between two turns: what the turn before called has returned
TurnOver(st) == st.pc = "loop"

\* one turn begins: the progress updated; a result with an error is skipped,
\* for any other ParseMboxFile is called
LoopTurn(r) ==
    /\ runs[r] # NoRun /\ TurnOver(runs[r])
    /\ runs[r].processed < runs[r].total
    /\ progress' = Update(progress, runs[r].processed + 1, runs[r].total,
                          MonthNames[runs[r].processed + 1])
    /\ \/ runs' = [runs EXCEPT ![r].processed = @ + 1]
       \/ \E unit \in RunUnits :
             runs' = [runs EXCEPT ![r].processed = @ + 1, ![r].pc = "parse",
                                  ![r].unit = unit,
                                  ![r].log = Append(@, Event("parse", runs[r].processed + 1,
                                                             "call"))]
    /\ UNCHANGED <<storeVars, groupVars, classVars, hostVars>>

\* ParseMboxFile returns: on an error or with no message the turn ends, with
\* messages storeMessagesInDB is called
LoopParsed(r) ==
    /\ runs[r] # NoRun /\ runs[r].pc = "parse"
    /\ \E failed \in BOOLEAN :
       \E returned \in {Append(runs[r].log, Event("parse", runs[r].processed, "return"))} :
          runs' = [runs EXCEPT
                     ![r].pc = IF failed THEN "loop" ELSE "store",
                     ![r].unit = IF failed THEN <<>> ELSE @,
                     ![r].log = IF failed THEN returned
                                ELSE Append(returned,
                                            Event("store", runs[r].processed, "call"))]
    /\ UNCHANGED <<progress, storeVars, groupVars, classVars, hostVars>>

\* storeMessagesInDB returns, and the turn ends
LoopStored(r) ==
    /\ runs[r] # NoRun /\ runs[r].pc = "store"
    /\ \E db \in Reconciled(Store, runs[r].unit, now) :
          /\ threads' = db.threads
          /\ messages' = db.messages
          /\ activities' = db.activities
          /\ call' = [op |-> "store", inserted |-> db.inserted]
    /\ progress' = SetLatestMessageDate(progress,
                       LatestOf(runs[r].unit, GeneratedIds(messages), now))
    /\ runs' = [runs EXCEPT ![r].pc = "loop", ![r].unit = <<>>,
                            ![r].log = Append(@, Event("store", runs[r].processed, "return"))]
    /\ UNCHANGED <<now, groupVars, classVars, hostVars>>

\* after the loop: the last Update and the deferred SetSyncing(false)
LoopEnd(r) ==
    /\ runs[r] # NoRun /\ runs[r].pc = "loop"
    /\ runs[r].processed = runs[r].total
    /\ progress' = SetSyncing(Update(progress, runs[r].total, runs[r].total, ""), FALSE)
    /\ runs' = [runs EXCEPT ![r] = NoRun]
    /\ UNCHANGED <<storeVars, groupVars, classVars, hostVars>>

NextLoop ==
    \/ \E r \in RunIds : LoopBegin(r)
    \/ \E r \in RunIds : LoopTurn(r)
    \/ \E r \in RunIds : LoopParsed(r)
    \/ \E r \in RunIds : LoopStored(r)
    \/ \E r \in RunIds : LoopEnd(r)

SpecLoop == Init /\ [][NextLoop]_vars

\* the calls of a run that have not returned
Pending(log) ==
    {i \in DOMAIN log :
        /\ log[i].edge = "call"
        /\ \A j \in DOMAIN log :
              ~(j > i /\ log[j] = [log[i] EXCEPT !.edge = "return"])}

\* C29: in a run, the units are taken in order and one at a time: at most
\* one ParseMboxFile or storeMessagesInDB of the run is under way, a unit's
\* reconciliation is called only after its parse returned, and the parse of
\* a later unit is called only after everything called for the earlier
\* units has returned
C29_UnitsOneAfterAnother ==
    \A r \in RunIds : runs[r] # NoRun =>
        /\ Cardinality(Pending(runs[r].log)) <= 1
        /\ \A i, j \in DOMAIN runs[r].log :
              i < j =>
                /\ runs[r].log[i].unit <= runs[r].log[j].unit
                /\ (runs[r].log[j].edge = "call" /\ runs[r].log[i].edge = "call") =>
                      \E k \in DOMAIN runs[r].log :
                          /\ i < k /\ k < j
                          /\ runs[r].log[k] = [runs[r].log[i] EXCEPT !.edge = "return"]

\* a run is parsing its second unit after the first was parsed and
\* reconciled, while the other run is reconciling a unit of its own
C29_Witness ==
    /\ runs[1] # NoRun /\ runs[2] # NoRun
    /\ runs[1].pc = "parse" /\ runs[1].processed = 2
    /\ Event("store", 1, "return") \in {runs[1].log[i] : i \in DOMAIN runs[1].log}
    /\ runs[2].pc = "store"

-----------------------------------------------------------------------------
(* The windows of the stalled and the abandoned status *)

\* C30: a thread classified stalled had its last message more than 7 and at
\* most 30 days ago, and a thread classified abandoned had it more than 30
\* days ago, whatever its message count and its patch and review keywords
C30_StatusWindows ==
    Classified =>
        /\ status = "stalled" => DaysOver(7) /\ ~DaysOver(30)
        /\ status = "abandoned" => DaysOver(30)

-----------------------------------------------------------------------------
(* Termination of the resolver *)

\* C31: groupByThread returns on every batch, also on a batch in which a
\* message's first reference is its own id or two messages name each other
\* as first reference
C31_ResolverReturns ==
    grouping.state # "idle" => grouping.state = "returned"

-----------------------------------------------------------------------------
(* The root of a message against its definition *)

\* the root of a message by definition: its own id when its chain has no
\* valid reference; otherwise, for the first valid reference c, the root of
\* a batch message with id c, or c when the batch has none
RECURSIVE DefinedRoots(_, _)
DefinedRoots(msg, depth) ==
    IF FirstRefId(msg) = {} THEN {msg.MessageID}
    ELSE UNION { IF InBatch(c)
                 THEN IF depth = 0 THEN {}
                      ELSE UNION { DefinedRoots(batch[i], depth - 1) : i \in WithId(c) }
                 ELSE {c} : c \in FirstRefId(msg) }

\* the key of the group a position of the batch is a member of
KeysOfPosition(j) ==
    {root \in DOMAIN grouping.threadMap : j \in Members(grouping.threadMap, root)}

\* C32: when groupByThread returns, the key of the group of each message is
\* the root its definition gives (for an id carried by several messages, the
\* root of one of them), and every key is the id of a batch message without
\* a valid reference or an id no batch message has
C32_RootAsDefined ==
    Returned =>
        /\ \A j \in Positions :
              KeysOfPosition(j) \subseteq
                  UNION { DefinedRoots(batch[i], Len(batch)) :
                            i \in WithId(batch[j].MessageID) }
        /\ DistinctIds =>
              \A j \in Positions :
                  /\ Cardinality(DefinedRoots(batch[j], Len(batch))) = 1
                  /\ KeysOfPosition(j) = DefinedRoots(batch[j], Len(batch))
        /\ \A root \in DOMAIN grouping.threadMap :
              \/ \E i \in WithId(root) : FirstRefId(batch[i]) = {}
              \/ ~InBatch(root)

\* a batch of three distinct ids returned in which the root of one message
\* is found through two messages of the batch and is an id not in the batch
C32_Witness ==
    /\ Returned /\ DistinctIds /\ Len(batch) = 3
    /\ \E j \in Positions :
          /\ Cardinality(FirstAncestorIds(j)) = 3
          /\ \E root \in KeysOfPosition(j) :
                /\ ~InBatch(root)
                /\ Members(grouping.threadMap, root) = Positions


(* The thread a group is stored under *)

\* the persisted threads anchored by a root id, and the threads of the
\* persisted members of a group
AnchoredBy(root) == {t.id : t \in {u \in threads : u.first_message_id = root}}
ThreadsOfMembers(root) ==
    {m.thread_id : m \in {n \in messages :
                            \E k \in DOMAIN MembersOf(root) :
                               n.message_id = MembersOf(root)[k].MessageID}}

\* the members of a group that no member is earlier than
EarliestOf(root) ==
    {MembersOf(root)[k] : k \in {i \in DOMAIN MembersOf(root) :
        \A j \in DOMAIN MembersOf(root) :
           MembersOf(root)[i].CreatedAt <= MembersOf(root)[j].CreatedAt}}

\* C33: the lookup of a group settles on a persisted thread anchored by the
\* group's root id when there is one, else on the thread of a persisted
\* member, else on a thread inserted at that moment, anchored by the root id
\* and carrying the subject, author and created_at of an earliest member; a
\* thread is inserted only in the last case
C33_TargetPrecedence ==
    [][(call.op = "storing" /\ call.pc = "group" /\ call.order # <<>>
          /\ call'.op = "storing" /\ call'.pc = "upsert")
       => IF AnchoredBy(Head(call.order)) # {}
          THEN call'.threadID \in AnchoredBy(Head(call.order)) /\ threads' = threads
          ELSE IF ThreadsOfMembers(Head(call.order)) # {}
          THEN call'.threadID \in ThreadsOfMembers(Head(call.order)) /\ threads' = threads
          ELSE /\ \A t \in threads : t.id # call'.threadID
               /\ \E t \in threads' : \E first \in EarliestOf(Head(call.order)) :
                    /\ threads' = threads \cup {t}
                    /\ t.id = call'.threadID
                    /\ t.first_message_id = Head(call.order)
                    /\ t.subject = first.Subject
                    /\ t.first_author_email = first.AuthorEmail
                    /\ t.created_at = first.CreatedAt]_vars

\* a group stored under the thread of a persisted member while no thread is
\* anchored by its root id, beside a thread just inserted for another group
C33_Witness ==
    /\ call.op = "storing" /\ call.pc = "upsert"
    /\ \A t \in threads : t.first_message_id # Head(call.order)
    /\ \E m \in messages : m.thread_id = call.threadID
    /\ \E k \in DOMAIN call.members :
         \E m \in messages : m.message_id = call.members[k].MessageID
    /\ \E k \in DOMAIN call.members :
         \A m \in messages : m.message_id # call.members[k].MessageID


(* The headers a message has when it reaches the validation gate *)

\* the entry the gate writes for a message
Judged(msg) ==
    [id |-> msg.MessageID, sender |-> msg.AuthorEmail # Empty,
     date |-> msg.CreatedAt >= Year1990]

\* C34: whenever the validation gate judges a message, at a "From " line or
\* at the end of the file, every header of that message has been applied to
\* it once, the one still pending included: the message judged is the
\* current message with its pending header applied, and it has an id when
\* its Message-ID header is in the file
C34_HeadersAppliedBeforeGate ==
    [][Len(call'.log) > Len(call.log)
       => /\ [f \in {"id", "sender", "date"} |-> call'.log[Len(call'.log)][f]]
                = Judged(PendingHeader(call, now).cur)
          /\ call.cur.given # NoHeader => call'.log[Len(call'.log)].id # Empty]_vars


-----------------------------------------------------------------------------
(* decodeMimeMultipart: the parts of a body, the ones kept and the ones dropped *)

MaxParts == 3

\* the lines of a multipart body, each a sequence of words: the boundary of
\* the message and its closing form, the headers of a part, and contents
MimeBoundary == <<"b">>
LineBoundary == <<"--">> \o MimeBoundary
LineClosing == <<"--">> \o MimeBoundary \o <<"--">>
LineTypeText == <<"content-type:", " ", "text/", "plain">>
LineTypeOther == <<"content-type:", " ", "application/", "pdf">>
LineBase64 == <<"content-transfer-encoding:", " ", "base64">>
LineAttachment == <<"content-disposition:", " ", "attachment">>
LineHello == <<"hello">>
LineWorld == <<"world">>
LineHelloBase64 == <<"aGVsbG8=">>

\* the headers a part comes with, and what it holds
PartHeaders == {<<LineTypeText>>, <<LineTypeText, LineBase64>>, <<LineTypeOther, LineBase64>>,
                <<LineTypeText, LineAttachment>>, <<>>}
PartContents == {<<LineHello>>, <<LineWorld>>, <<LineHelloBase64>>, <<>>}
Parts == [headers : PartHeaders, content : PartContents]

\* a body as it stands in the file: every part behind a boundary line, its
\* headers, an empty line, its content; the closing boundary last, if there
RECURSIVE BodyOf(_, _)
BodyOf(parts, closed) ==
    IF parts = <<>> THEN IF closed THEN <<LineClosing>> ELSE <<>>
    ELSE <<LineBoundary>> \o Head(parts).headers \o <<LineBlank>> \o Head(parts).content
            \o BodyOf(Tail(parts), closed)

\* strings.TrimSpace on a text of whole lines
TrimLines(lines) == Trim(lines, {LineBlank})

\* base64.StdEncoding.DecodeString, on the texts the model uses
DecodeString(text) ==
    IF text = LineHelloBase64 THEN [err |-> FALSE, text |-> LineHello]
    ELSE [err |-> TRUE, text |-> Empty]

\* the lines of a text joined with the line ends removed
RECURSIVE Joined(_)
Joined(lines) == IF lines = <<>> THEN <<>> ELSE Head(lines) \o Joined(Tail(lines))

\* decodePartBody
decodePartBody(body, encoding) ==
    IF TrimLines(body) = <<>> THEN <<>>
    ELSE IF encoding = <<"base64">>
    THEN IF DecodeString(Joined(TrimLines(body))).err THEN <<Joined(TrimLines(body))>>
         ELSE <<DecodeString(Joined(TrimLines(body))).text>>
    ELSE TrimLines(body)

\* the marker between two parts: "\n\n---\n\n"
PartMarker == <<LineBlank, <<"---">>, LineBlank>>

\* the variables of decodeMimeMultipart before the first line
NoPart == [inPart |-> FALSE, partEncoding |-> Empty, partContentType |-> Empty,
           isAttachment |-> FALSE, partBody |-> <<>>, headersDone |-> FALSE, result |-> <<>>]

\* "Save previous part only if it was text and not an attachment"
SavePart(d) ==
    IF d.inPart /\ Contains(d.partContentType, <<"text/">>) /\ ~d.isAttachment
         /\ decodePartBody(d.partBody, d.partEncoding) # <<>>
    THEN [d EXCEPT !.result = (IF @ # <<>> THEN @ \o PartMarker ELSE @)
                                 \o decodePartBody(d.partBody, d.partEncoding)]
    ELSE d

\* the body of the loop over the lines
MimeLine(d, line) ==
    IF HasPrefix(line, <<"--">> \o MimeBoundary)
    THEN [SavePart(d) EXCEPT !.inPart = TRUE, !.partEncoding = Empty,
                             !.partContentType = Empty, !.isAttachment = FALSE,
                             !.partBody = <<>>, !.headersDone = FALSE]
    ELSE IF ~d.inPart THEN d
    ELSE IF ~d.headersDone /\ TrimSpace(line) = Empty
    THEN [d EXCEPT !.headersDone = TRUE]
    ELSE IF ~d.headersDone
    THEN IF HasPrefix(ToLower(line), <<"content-type:">>)
         THEN [d EXCEPT !.partContentType = ToLower(line)]
         ELSE IF HasPrefix(ToLower(line), <<"content-transfer-encoding:">>)
         THEN [d EXCEPT !.partEncoding = ToLower(TrimSpace(Tail(line)))]
         ELSE IF HasPrefix(ToLower(line), <<"content-disposition:">>)
                   /\ Contains(ToLower(line), <<"attachment">>)
         THEN [d EXCEPT !.isAttachment = TRUE]
         ELSE d
    ELSE IF Contains(d.partContentType, <<"text/">>) /\ ~d.isAttachment
    THEN [d EXCEPT !.partBody = Append(@, line)]
    ELSE d

RECURSIVE MimeLines(_, _)
MimeLines(d, lines) ==
    IF lines = <<>> THEN d ELSE MimeLines(MimeLine(d, Head(lines)), Tail(lines))

\* decodeMimeMultipart, for a content type that gives the boundary: the
\* text of the parts kept, or the body as it came when there is none
decodeMimeMultipart(body) ==
    IF SavePart(MimeLines(NoPart, body)).result # <<>>
    THEN TrimLines(SavePart(MimeLines(NoPart, body)).result)
    ELSE body

\* a message body of up to MaxParts parts, before it is decoded
InitMime ==
    /\ threads = {} /\ messages = {} /\ activities = {}
    /\ now = Now0
    /\ \E n \in 1..MaxParts : \E parts \in [1..n -> Parts] : \E closed \in BOOLEAN :
         call = [op |-> "body", inserted |-> 0, parts |-> parts, closed |-> closed,
                 body |-> TrimLines(BodyOf(parts, closed)), out |-> <<>>]
    /\ InitSync /\ InitClass
    /\ batch = <<>>
    /\ grouping = [state |-> "idle"]

\* decodeMessageBody on a multipart body
DecodeBody ==
    /\ call.op = "body"
    /\ call' = [call EXCEPT !.op = "decoded", !.out = decodeMimeMultipart(call.body)]
    /\ UNCHANGED <<threads, messages, activities, now, batch, grouping, classVars, syncVars, hostVars>>

NextMime == DecodeBody

SpecMime == InitMime /\ [][NextMime]_vars

\* a part that is text and no attachment, by its headers; what such parts
\* give, each decoded by its own encoding, in their order with the marker
\* between them
IsTextPart(part) ==
    /\ \E k \in DOMAIN part.headers : part.headers[k] = LineTypeText
    /\ \A k \in DOMAIN part.headers : part.headers[k] # LineAttachment
TextOf(part) ==
    decodePartBody(part.content,
                   IF \E k \in DOMAIN part.headers : part.headers[k] = LineBase64
                   THEN <<"base64">> ELSE Empty)
RECURSIVE TextOfParts(_)
TextOfParts(parts) ==
    IF parts = <<>> THEN <<>>
    ELSE IF IsTextPart(Head(parts)) /\ TextOf(Head(parts)) # <<>>
    THEN IF TextOfParts(Tail(parts)) # <<>>
         THEN TextOf(Head(parts)) \o PartMarker \o TextOfParts(Tail(parts))
         ELSE TextOf(Head(parts))
    ELSE TextOfParts(Tail(parts))

\* C35: the decoded body of a multipart message is the text of its text
\* parts that are no attachments, each decoded by its own transfer encoding,
\* in their order and with the marker between them; a part that is an
\* attachment or not text, and the closing boundary, give no line of it
C35_OnlyTextParts ==
    call.op = "decoded" => call.out = TextOfParts(call.parts)


-----------------------------------------------------------------------------
(* The progress a run publishes *)

\* the tracker as a run over its units has it: the total is the run's
\* number of units, the count lies between 0 and the total and is the
\* number of the unit the run has begun last
TrackerOf(st, tracker) ==
    /\ tracker.TotalMonths = st.total
    /\ 0 <= tracker.MonthsSynced /\ tracker.MonthsSynced <= tracker.TotalMonths
    /\ tracker.MonthsSynced = st.processed

\* C36: while a remote-range run over N units is executing, the tracker has
\* TotalMonths = N and 0 <= MonthsSynced <= N, MonthsSynced never decreases
\* and is k from the moment the k-th unit is begun, before that unit is
\* parsed and reconciled; when the run completes MonthsSynced is N
C36_ProgressCountsUnits ==
    [][\A r \in RunIds :
          /\ runs'[r] # NoRun => TrackerOf(runs'[r], progress')
          /\ (runs[r] # NoRun /\ runs'[r] # NoRun)
                => progress'.MonthsSynced >= progress.MonthsSynced
          /\ (runs[r] # NoRun /\ runs'[r] = NoRun)
                => progress'.MonthsSynced = runs[r].total]_vars


-----------------------------------------------------------------------------
(* The flag of the tracker *)

\* the remote-range runs that are executing: performMboxSync has been
\* entered, its first statement done, and it has not returned
Executing == {r \in RunIds : runs[r].kind = "sync" /\ runs[r].pc # "start"}

\* C37: IsSyncing is true in every state in which some performMboxSync is
\* executing and false in every state in which none is, however the trigger
\* requests interleave, two runs at a time included
C37_FlagTellsRunning == progress.IsSyncing <=> Executing # {}


-----------------------------------------------------------------------------
(* DownloadMonthsConcurrent comes back *)

\* the steps of the caller's goroutine inside DownloadMonthsConcurrent, and
\* the steps of a worker's goroutine
PoolMain == PoolSpawn \/ PoolSend \/ PoolClose \/ PoolCollect \/ PoolReturn
WorkerStep(w) == WorkerReceive(w) \/ WorkerDownload(w) \/ WorkerExit(w)

\* a call of DownloadMonthsConcurrent from its start to its return
NextDownload ==
    \/ SyncDownload
    \/ PoolMain
    \/ \E w \in Workers : WorkerStep(w)

\* the scheduler runs every goroutine that can take a step, and every
\* download returns
SpecPoolFair ==
    /\ Init /\ [][NextDownload]_vars
    /\ WF_vars(PoolMain)
    /\ \A w \in Workers : WF_vars(WorkerStep(w))

\* the channel of results is closed
ResultsClosed == pool.pc \in {"loop", "done"}

\* every send finds the channel open and with room
SendsGoThrough ==
    pool.pc # "idle" =>
        /\ pool.sent < Len(pool.months) => (~pool.closed /\ Len(pool.jobs) < Capacity(pool.months))
        /\ \A w \in DOMAIN pool.worker :
              pool.worker[w].pc = "download"
                 => (~ResultsClosed /\ Len(pool.results) < Capacity(pool.months))
        /\ ResultsClosed => pool.jobs = <<>>

\* every worker has returned
WorkersGone == \A w \in DOMAIN pool.worker : pool.worker[w].pc = "exited"

\* C38: when every download returns, DownloadMonthsConcurrent returns for
\* every list of months, the empty one and one longer than the worker count
\* included, and every worker count; no send on the channel of jobs or of
\* results waits for room or meets a closed channel; and every worker
\* returns once the channel of jobs is closed and drained
C38_PoolReturns ==
    /\ []SendsGoThrough
    /\ (pool.pc = "spawn") ~> (ResultsClosed /\ WorkersGone)

\* a call with more months than workers has returned and its workers are gone
C38_Witness ==
    /\ ResultsClosed /\ WorkersGone
    /\ Len(pool.months) = MaxJobs /\ pool.given = 1
    /\ Len(pool.out) = MaxJobs

\* a call with no month has returned and its three workers are gone
C38_WitnessNoMonth ==
    /\ ResultsClosed /\ WorkersGone
    /\ pool.months = <<>> /\ pool.given = 0


-----------------------------------------------------------------------------
(* The order of the batch *)

\* the batch in another order
Reordered(p) == [k \in 1..Len(batch) |-> batch[p[k]]]

\* a grouping as the ids of the members under every root
IdsUnder(msgs, threadMap) ==
    [root \in DOMAIN threadMap |->
        {msgs[threadMap[root][k]].MessageID : k \in 1..Len(threadMap[root])}]

\* the root of a message found with nothing memoized
RootAlone(msgs, j) ==
    findThreadRootRFC5256(msgs[j], MessageMap(msgs), <<>>, Len(msgs))

\* C39: for a batch of pairwise distinct ids, groupByThread on every
\* reordering of the batch returns exactly when it returns on the batch, with
\* the same roots and the same members under every root; and the root of
\* every member is the one the resolver finds for it with nothing memoized
C39_OrderDoesNotMatter ==
    (grouping.state # "idle" /\ DistinctIds) =>
        /\ \A p \in Permutations(1..Len(batch)) :
              /\ groupByThread(Reordered(p)).returns = Returned
              /\ Returned => IdsUnder(Reordered(p), groupByThread(Reordered(p)).threadMap)
                                = IdsUnder(batch, grouping.threadMap)
        /\ Returned =>
              \A root \in DOMAIN grouping.threadMap :
                 \A k \in 1..Len(grouping.threadMap[root]) :
                    /\ RootAlone(batch, grouping.threadMap[root][k]).returns
                    /\ RootAlone(batch, grouping.threadMap[root][k]).root = root

\* a batch of three whose last message is the starter the first two lead to,
\* the first through the second: one group under the starter
C39_Witness ==
    /\ Returned /\ DistinctIds /\ Len(batch) = 3
    /\ FirstRefId(batch[3]) = {}
    /\ FirstRefId(batch[2]) = {batch[3].MessageID}
    /\ FirstRefId(batch[1]) = {batch[2].MessageID}
    /\ DOMAIN grouping.threadMap = {batch[3].MessageID}
    /\ grouping.threadMap[batch[3].MessageID] = <<1, 2, 3>>


-----------------------------------------------------------------------------
(* What the store holds between operations *)

\* C40: after every sequence of storeMessagesInDB calls and resets, each run
\* to its end before the next begins, every message's thread_id is the id
\* of a thread in the store, and no two threads have the same
\* first_message_id
C40_OneThreadPerRoot ==
    /\ \A m \in messages : \E t \in threads : t.id = m.thread_id
    /\ \A t, u \in threads : t.first_message_id = u.first_message_id => t = u

\* after a call: two threads, one of them holding a message that is not the
\* one its thread is anchored by
C40_Witness ==
    /\ call.op = "store"
    /\ Cardinality(threads) >= 2
    /\ \E m \in messages : \E t \in threads :
          t.id = m.thread_id /\ t.first_message_id # m.message_id

====
